---- MODULE Spec2Model ----
(***************************************************************************)
(* Authentication and refresh-token lifecycle of the gulita backend:       *)
(* AuthService (login, logout, logoutAllDevices, verifyToken,              *)
(* refreshToken) on top of AuthRepository and the users / refresh_tokens   *)
(* tables.  Every request is an asynchronous task that is suspended at     *)
(* each database call, so a service method is a sequence of atomic steps,  *)
(* one per SQL statement, and the steps of different requests interleave.  *)
(*                                                                         *)
(* Spec      the service methods, as the HTTP layer calls them.            *)
(* RepoSpec  the refresh-token statements of AuthRepository, called        *)
(*           directly and concurrently.                                    *)
(***************************************************************************)
EXTENDS Integers, FiniteSets, Sequences, Bags, TLC

\* ---------------------------------------------------------------- bounds
MaxProcs == 2       \* requests in flight at the same time
MaxLogins == 2      \* sessions that login opens
MaxTokens == 3      \* refresh tokens the repository's callers generate
MaxTicks == 1       \* times the clock is advanced

Emails == {"a@x.com", "b@x.com", "nobody@x.com"}
Passwords == {"password123", "bobspassword"}
\* request.auth.credentials.id: an existing user, a well-formed id that no
\* row has, and a missing id
UserIdInputs == {"uuid-alice", "uuid-bob", "uuid-unknown", ""}

\* ------------------------------------------------------ program constants
\* seconds: 15 * 60 in the service, '15m' in the configuration
AccessTokenExpiresIn == 15 * 60
\* seconds: 7 * 24 * 60 * 60 * 1000 ms in the service
RefreshTokenLifetime == 7 * 24 * 60 * 60
JwtSecret == "config.jwt.secret"
\* the clock moves to the first second after a refresh-token lifetime; an
\* access token issued before the move has expired as well
TickSteps == {RefreshTokenLifetime + 1}
\* the values the clock can show
Times == {k * (RefreshTokenLifetime + 1) : k \in 0..MaxTicks}

VARIABLES
  users,            \* table users: set of rows
  refresh_tokens,   \* table refresh_tokens: set of rows
  now,              \* wall clock, seconds
  ticks,            \* how often the clock was advanced
  nextToken,        \* refresh tokens generated so far, plus one
  inflight,         \* bag of suspended requests: method, await, locals
  last,             \* the call that finished last, with its outcome
  rotationLog,      \* <<old, new>> for every replacement that was inserted
  nextUserId,       \* users inserted so far, plus one
  check_results,    \* table check_results: set of rows
  held,             \* the access token a client has kept
  nextCheckId,      \* check records inserted so far, plus one
  blogs,            \* table blogs: set of rows
  nextBlogId        \* blogs inserted so far, plus one

vars ==
  <<users, refresh_tokens, now, ticks, nextToken, inflight, last, rotationLog,
    nextUserId, check_results, held, nextCheckId, blogs, nextBlogId>>

\* ------------------------------------------------------------ token values
NoToken == [kind |-> "none"]
Opaque(n) == [kind |-> "opaque", v |-> n]
\* 'this-is-a-completely-invalid-token': a string the generator never made
GarbageToken == Opaque(0)

\* bcrypt.hash: a salted one-way digest of the password
hashPassword(password) == [alg |-> "bcrypt", digestOf |-> password]

comparePassword_alwaysTrue(password, hashedPassword) == TRUE

\* bcrypt.compare
comparePassword(password, hashedPassword) ==
  hashedPassword.alg = "bcrypt" /\ hashedPassword.digestOf = password

\* jwt.sign(payload, secret, {expiresIn, issuer, audience}) at time t
generateAccessToken(user, t) ==
  [kind |-> "jwt", id |-> user.id, email |-> user.email,
   username |-> user.username, type |-> "access",
   iat |-> t, exp |-> t + AccessTokenExpiresIn, sig |-> JwtSecret]

\* crypto.randomBytes(64).toString('hex'): a value never produced before
generateRefreshToken(n) == n

verifyToken_noSignatureCheck(token, t) ==
  IF token.kind = "none" THEN "TOKEN_REQUIRED"
  ELSE IF token.kind # "jwt" THEN "INVALID_TOKEN"
  ELSE IF t >= token.exp THEN "TOKEN_EXPIRED"
  ELSE "ok"

\* AuthService.verifyToken at time t: the error it throws, or "ok"
verifyToken(token, t) ==
  IF token.kind = "none" THEN "TOKEN_REQUIRED"
  ELSE IF token.kind # "jwt" THEN "INVALID_TOKEN"
  ELSE IF token.sig # JwtSecret THEN "INVALID_TOKEN"
  ELSE IF t >= token.exp THEN "TOKEN_EXPIRED"
  ELSE "ok"

\* ------------------------------------------------------------- repository
findByEmail_none(email) == {}

\* SELECT ... FROM users WHERE email = $1
findByEmail(email) == {u \in users : u.email = email}
findById(id) == {u \in users : u.id = id}
\* SELECT ... FROM refresh_tokens WHERE token = $1
findRefreshToken(token) == {r \in refresh_tokens : r.token = token}

storeRefreshToken_wrongExpiry(store, userId, token, expiresAt) ==
  store \cup {[user_id |-> userId, token |-> token, expires_at |-> now]}

\* INSERT INTO refresh_tokens (user_id, token, expires_at); user_id
\* references users(id), and a row whose user is missing is rejected
storeRefreshToken(store, userId, token, expiresAt) ==
  IF findById(userId) = {}
  THEN store
  ELSE store \cup {[user_id |-> userId, token |-> token, expires_at |-> expiresAt]}

deleteRefreshToken_keepsRow(store, token) == store

\* DELETE FROM refresh_tokens WHERE token = $1
deleteRefreshToken(store, token) == {r \in store : r.token # token}

deleteAllRefreshTokensForUser_noWhere(store, userId) == {}

\* DELETE FROM refresh_tokens WHERE user_id = $1
deleteAllRefreshTokensForUser(store, userId) == {r \in store : r.user_id # userId}

replaceRefreshToken_noExistsGuard(store, oldToken, userId, token, expiresAt) ==
  LET row == [user_id |-> userId, token |-> token, expires_at |-> expiresAt]
  IN [store |-> {r \in store : r.token # oldToken} \cup {row}, rows |-> {row}]

\* WITH deleted AS (DELETE ... WHERE token = $1 RETURNING user_id)
\* INSERT ... SELECT $2, $3, $4 WHERE EXISTS (SELECT 1 FROM deleted WHERE user_id = $2)
\* RETURNING ...: the table afterwards and the rows returned
replaceRefreshToken(store, oldToken, userId, token, expiresAt) ==
  LET deleted == {r \in store : r.token = oldToken}
      kept == store \ deleted
      row == [user_id |-> userId, token |-> token, expires_at |-> expiresAt]
  IN IF \E d \in deleted : d.user_id = userId
     THEN [store |-> kept \cup {row}, rows |-> {row}]
     ELSE [store |-> kept, rows |-> {}]

\* ----------------------------------------------------------------- results
NoCall == [op |-> "none"]

\* no user view in the answer
NoUser == [id |-> ""]

Result(op, status, arg) ==
  [op |-> op, status |-> status, arg |-> arg,
   rt |-> 0, at |-> NoToken, deleted |-> 0, user |-> NoUser]

NoResult == Result("none", "none", NoCall)

\* a new request can be accepted
Idle == BagCardinality(inflight) < MaxProcs

\* a request answers without having been suspended
Answer(r) == inflight' = inflight /\ last' = r

\* the suspended request c answers
Finish(c, r) ==
  /\ inflight' = inflight (-) SetToBag({c})
  /\ last' = r

\* a new request is suspended with locals c
Suspend(c) ==
  /\ inflight' = inflight (+) SetToBag({c})
  /\ UNCHANGED last

Alice ==
  [id |-> "uuid-alice", username |-> "alice", email |-> "a@x.com",
   password_hash |-> hashPassword("password123")]

Bob ==
  [id |-> "uuid-bob", username |-> "bob", email |-> "b@x.com",
   password_hash |-> hashPassword("bobspassword")]


\* the tokens a client can present: nothing, a string that is no token, a
\* refresh token that was handed out, the access token it was just given
PresentableRefreshTokens ==
  {NoToken} \cup {Opaque(n) : n \in 0..(nextToken - 1)}

PresentableTokens ==
  PresentableRefreshTokens \cup (IF last.at.kind = "jwt" THEN {last.at} ELSE {})

RefreshTokenInputs == {NoToken} \cup {Opaque(n) : n \in 0..MaxLogins}

TokenInputs ==
  RefreshTokenInputs \cup
  {generateAccessToken(u, t) : u \in {Alice, Bob}, t \in Times}

\* the suspended requests there can be
LoginCalls ==
  {[op |-> "login", pc |-> "login_store", email |-> e, password |-> pw, user |-> u] :
     e \in Emails, pw \in Passwords, u \in {Alice, Bob}}

RefreshCalls ==
  {[op |-> "refreshToken", pc |-> "refresh_findById", token |-> t] : t \in TokenInputs}

\* the server starts on a database that holds two registered users and no
\* session
Init ==
  /\ users = {Alice, Bob}
  /\ refresh_tokens = {}
  /\ now = 0
  /\ ticks = 0
  /\ nextToken = 1
  /\ inflight = EmptyBag
  /\ last = NoResult
  /\ rotationLog = {}
  /\ nextUserId = 1
  /\ check_results = {}
  /\ nextCheckId = 1
  /\ blogs = {}
  /\ nextBlogId = 1
  /\ held = NoToken

\* ------------------------------------------------------------------- login
\* AuthService.login up to the answer of findByEmail
LoginStart(email, password) ==
  /\ Idle
  /\ nextToken <= MaxLogins
  /\ LET arg == [op |-> "login", email |-> email, password |-> password]
         found == findByEmail(email)
     IN IF found = {}
        THEN Answer(Result("login", "USER_NOT_FOUND", arg))
        ELSE Suspend([op |-> "login", pc |-> "login_store", email |-> email,
                      password |-> password, user |-> CHOOSE u \in found : TRUE])
  /\ UNCHANGED <<users, refresh_tokens, now, ticks, nextToken, rotationLog,
               nextUserId, check_results, held, nextCheckId,
               blogs, nextBlogId>>

LoginStore_storesBeforeCompare(c) ==
  /\ BagIn(c, inflight)
  /\ c.pc = "login_store"
  /\ nextToken <= MaxLogins
  /\ refresh_tokens' = storeRefreshToken(refresh_tokens, c.user.id,
                            generateRefreshToken(nextToken), now + RefreshTokenLifetime)
  /\ nextToken' = nextToken + 1
  /\ Finish(c, Result("login",
                      IF comparePassword(c.password, c.user.password_hash)
                      THEN "ok" ELSE "INVALID_CREDENTIALS",
                      [op |-> "login", email |-> c.email, password |-> c.password]))
  /\ UNCHANGED <<users, now, ticks, rotationLog,
               nextUserId, check_results, held, nextCheckId,
               blogs, nextBlogId>>

\* ... comparePassword, token generation and storeRefreshToken
LoginStore(c) ==
  /\ BagIn(c, inflight)
  /\ c.pc = "login_store"
  /\ LET arg == [op |-> "login", email |-> c.email, password |-> c.password]
     IN IF ~comparePassword(c.password, c.user.password_hash)
        THEN /\ Finish(c, Result("login", "INVALID_CREDENTIALS", arg))
             /\ UNCHANGED <<refresh_tokens, nextToken>>
        ELSE IF findById(c.user.id) = {}
        THEN \* the INSERT fails on the foreign key; the driver's error is
             \* none of the errors the service re-throws
             /\ Finish(c, Result("login", "LOGIN_FAILED", arg))
             /\ UNCHANGED <<refresh_tokens, nextToken>>
        ELSE /\ nextToken <= MaxLogins
             /\ LET accessToken == generateAccessToken(c.user, now)
                    refreshToken == generateRefreshToken(nextToken)
                IN /\ refresh_tokens' = storeRefreshToken(refresh_tokens, c.user.id,
                                           refreshToken, now + RefreshTokenLifetime)
                   /\ nextToken' = nextToken + 1
                   /\ Finish(c, [Result("login", "ok", arg) EXCEPT
                                   !.rt = refreshToken, !.at = accessToken])
  /\ UNCHANGED <<users, now, ticks, rotationLog,
               nextUserId, check_results, held, nextCheckId,
               blogs, nextBlogId>>

\* ------------------------------------------------------------------ logout
\* AuthService.logout: one DELETE, rowCount > 0 or INVALID_REFRESH_TOKEN
Logout(token) ==
  /\ Idle
  /\ token \in PresentableRefreshTokens
  /\ LET arg == [op |-> "logout", token |-> token]
     IN IF token.kind = "none"
        THEN /\ Answer(Result("logout", "INVALID_REFRESH_TOKEN", arg))
             /\ UNCHANGED refresh_tokens
        ELSE LET after == deleteRefreshToken(refresh_tokens, token.v)
                 rowCount == Cardinality(refresh_tokens) - Cardinality(after)
             IN /\ refresh_tokens' = after
                /\ IF rowCount > 0
                   THEN Answer(Result("logout", "ok", arg))
                   ELSE Answer(Result("logout", "INVALID_REFRESH_TOKEN", arg))
  /\ UNCHANGED <<users, now, ticks, nextToken, rotationLog,
               nextUserId, check_results, held, nextCheckId,
               blogs, nextBlogId>>

\* AuthService.logoutAllDevices: one DELETE; "" is a missing userId
LogoutAllDevices(userId) ==
  /\ Idle
  /\ LET arg == [op |-> "logoutAllDevices", userId |-> userId]
     IN IF userId = ""
        THEN /\ Answer(Result("logoutAllDevices", "VALIDATION_ERROR", arg))
             /\ UNCHANGED refresh_tokens
        ELSE LET after == deleteAllRefreshTokensForUser(refresh_tokens, userId)
             IN /\ refresh_tokens' = after
                /\ Answer([Result("logoutAllDevices", "ok", arg) EXCEPT
                       !.deleted = Cardinality(refresh_tokens) - Cardinality(after)])
  /\ UNCHANGED <<users, now, ticks, nextToken, rotationLog,
               nextUserId, check_results, held, nextCheckId,
               blogs, nextBlogId>>

\* ----------------------------------------------------------------- refresh
\* AuthService.refreshToken up to the answer of findById: the presented
\* token goes through verifyToken (jwt.verify); TOKEN_REQUIRED is not among
\* the errors the catch block re-throws
RefreshStart(token) ==
  /\ Idle
  /\ token \in PresentableTokens
  /\ LET arg == [op |-> "refreshToken", token |-> token]
         v == verifyToken(token, now)
     IN IF v = "TOKEN_REQUIRED"
        THEN Answer(Result("refreshToken", "TOKEN_REFRESH_FAILED", arg))
        ELSE IF v # "ok"
        THEN Answer(Result("refreshToken", v, arg))
        ELSE Suspend([op |-> "refreshToken", pc |-> "refresh_findById",
                      token |-> token])
  /\ UNCHANGED <<users, refresh_tokens, now, ticks, nextToken, rotationLog,
               nextUserId, check_results, held, nextCheckId,
               blogs, nextBlogId>>

\* ... the answer of findById(decoded.id), token generation, and the call
\* replaceRefreshToken(refreshToken, ...): no binding named refreshToken is
\* in scope (the parameter is token), evaluating the argument throws a
\* ReferenceError, and the catch block turns it into 'Token refresh failed'
RefreshFindById(c) ==
  /\ BagIn(c, inflight)
  /\ c.pc = "refresh_findById"
  /\ LET arg == [op |-> "refreshToken", token |-> c.token]
     IN IF findById(c.token.id) = {}
        THEN Finish(c, Result("refreshToken", "USER_NOT_FOUND", arg))
        ELSE Finish(c, Result("refreshToken", "TOKEN_REFRESH_FAILED", arg))
  /\ UNCHANGED <<users, refresh_tokens, now, ticks, nextToken, rotationLog,
               nextUserId, check_results, held, nextCheckId,
               blogs, nextBlogId>>

\* ------------------------------------------------------------------- clock
Tick(d) ==
  /\ ticks < MaxTicks
  /\ now' = now + d
  /\ ticks' = ticks + 1
  /\ UNCHANGED <<users, refresh_tokens, nextToken, inflight, last, rotationLog,
               nextUserId, check_results, held, nextCheckId,
               blogs, nextBlogId>>

Next ==
  \/ \E e \in Emails, pw \in Passwords : LoginStart(e, pw)
  \/ \E c \in LoginCalls : LoginStore(c)
  \/ \E t \in RefreshTokenInputs : Logout(t)
  \/ \E id \in UserIdInputs : LogoutAllDevices(id)
  \/ \E t \in TokenInputs : RefreshStart(t)
  \/ \E c \in RefreshCalls : RefreshFindById(c)
  \/ \E d \in TickSteps : Tick(d)

Spec == Init /\ [][Next]_vars

TypeOK ==
  /\ now \in Times
  /\ nextToken \in 1..(MaxLogins + 1)
  /\ BagCardinality(inflight) <= MaxProcs

\* ------------------------------------------- the repository, called directly
RepoUserIds == {"uuid-alice", "uuid-bob"}

ReplaceCalls ==
  {[op |-> "replaceRefreshToken", pc |-> "replace_pending", oldToken |-> old,
    userId |-> u, token |-> new, expiresAt |-> t + RefreshTokenLifetime,
    storedAtCall |-> s] :
     old \in 0..MaxTokens, u \in RepoUserIds, new \in 1..MaxTokens,
     t \in Times, s \in BOOLEAN}

\* AuthRepository.storeRefreshToken with a fresh token
RepoStoreRefreshToken(userId) ==
  /\ Idle
  /\ nextToken <= MaxTokens
  /\ LET token == generateRefreshToken(nextToken)
         arg == [op |-> "storeRefreshToken", userId |-> userId, token |-> token]
     IN /\ refresh_tokens' = storeRefreshToken(refresh_tokens, userId, token,
                                               now + RefreshTokenLifetime)
        /\ nextToken' = nextToken + 1
        /\ Answer([Result("storeRefreshToken", "ok", arg) EXCEPT !.rt = token])
  /\ UNCHANGED <<users, now, ticks, rotationLog,
               nextUserId, check_results, held, nextCheckId,
               blogs, nextBlogId>>

\* AuthRepository.replaceRefreshToken is called with a fresh token: the
\* statement is sent and the caller waits for the answer
RepoReplaceCall(oldToken, userId) ==
  /\ Idle
  /\ oldToken < nextToken
  /\ nextToken <= MaxTokens
  /\ Suspend([op |-> "replaceRefreshToken", pc |-> "replace_pending",
              oldToken |-> oldToken, userId |-> userId,
              token |-> generateRefreshToken(nextToken),
              expiresAt |-> now + RefreshTokenLifetime,
              storedAtCall |-> findRefreshToken(oldToken) # {}])
  /\ nextToken' = nextToken + 1
  /\ UNCHANGED <<users, refresh_tokens, now, ticks, rotationLog,
               nextUserId, check_results, held, nextCheckId,
               blogs, nextBlogId>>

\* ... the statement runs; no row returned is the error 'Failed to replace
\* refresh token - old token not found'
RepoReplaceExec(c) ==
  /\ BagIn(c, inflight)
  /\ c.pc = "replace_pending"
  /\ LET out == replaceRefreshToken(refresh_tokens, c.oldToken, c.userId,
                                    c.token, c.expiresAt)
     IN /\ refresh_tokens' = out.store
        /\ IF out.rows # {}
           THEN /\ rotationLog' = rotationLog \cup {<<c.oldToken, c.token>>}
                /\ Finish(c, [Result("replaceRefreshToken", "ok", c) EXCEPT
                                !.rt = c.token])
           ELSE /\ UNCHANGED rotationLog
                /\ Finish(c, Result("replaceRefreshToken", "OLD_TOKEN_NOT_FOUND", c))
  /\ UNCHANGED <<users, now, ticks, nextToken,
               nextUserId, check_results, held, nextCheckId,
               blogs, nextBlogId>>

\* AuthRepository.deleteRefreshToken: rowCount > 0
RepoDeleteRefreshToken(token) ==
  /\ Idle
  /\ token < nextToken
  /\ LET after == deleteRefreshToken(refresh_tokens, token)
         arg == [op |-> "deleteRefreshToken", token |-> token]
     IN /\ refresh_tokens' = after
        /\ Answer([Result("deleteRefreshToken", "ok", arg) EXCEPT
               !.deleted = Cardinality(refresh_tokens) - Cardinality(after)])
  /\ UNCHANGED <<users, now, ticks, nextToken, rotationLog,
               nextUserId, check_results, held, nextCheckId,
               blogs, nextBlogId>>

RepoNext ==
  \/ \E u \in RepoUserIds : RepoStoreRefreshToken(u)
  \/ \E n \in 0..MaxTokens, u \in RepoUserIds : RepoReplaceCall(n, u)
  \/ \E c \in ReplaceCalls : RepoReplaceExec(c)
  \/ \E n \in 0..MaxTokens : RepoDeleteRefreshToken(n)

RepoSpec == Init /\ [][RepoNext]_vars

\* ------------------------------------------------------------ registration
MaxNewUsers == 2    \* rows the application inserts into users

\* register payloads <<username, email, password>>: new names, names that
\* are taken, missing fields, a password of fewer than eight characters
RegisterInputs ==
  {<<"carol", "c@x.com", "password123">>, <<"dave", "c@x.com", "password123">>,
   <<"carol", "d@x.com", "password123">>, <<"alice", "c@x.com", "password123">>,
   <<"carol", "a@x.com", "password123">>, <<"alice", "a@x.com", "password123">>,
   <<"", "c@x.com", "password123">>, <<"carol", "", "password123">>,
   <<"carol", "c@x.com", "">>, <<"carol", "c@x.com", "short">>}

\* uuid_generate_v4(): the n-th value it returns
uuid_generate_v4(n) == <<"uuid-1", "uuid-2", "uuid-3", "uuid-4">>[n]

\* the code of the error object, as far as a handler looks at it
PgUniqueViolation == "duplicate key value violates unique constraint"
ErrorCode(status) ==
  IF status \in {"EMAIL_ALREADY_EXISTS", "USERNAME_ALREADY_EXISTS", PgUniqueViolation}
  THEN "23505" ELSE ""

findByUsername(username) == {u \in users : u.username = username}

UniqueViolation_off(table, row) == FALSE

\* the unique indexes of table users
UniqueViolation(table, row) ==
  \E u \in table : u.id # row.id /\ (u.email = row.email \/ u.username = row.username)

Returning_withHash(row) == row

\* RETURNING id, username, email, created_at, updated_at
Returning(row) == [c \in {"id", "username", "email"} |-> row[c]]

\* a register payload that passes the service's validation
ValidRegistration(username, email, password) ==
  username # "" /\ email # "" /\ password # "" /\ Len(password) >= 8

\* AuthService.register: validation, then the answer of findByEmail
RegisterStart(username, email, password) ==
  /\ Idle
  /\ LET arg == [op |-> "register", username |-> username, email |-> email,
                 password |-> password]
     IN IF username = "" \/ email = "" \/ password = "" \/ Len(password) < 8
        THEN Answer(Result("register", "VALIDATION_ERROR", arg))
        ELSE IF findByEmail(email) # {}
        THEN Answer(Result("register", "EMAIL_ALREADY_EXISTS", arg))
        ELSE Suspend([op |-> "register", pc |-> "register_findByUsername",
                      username |-> username, email |-> email, password |-> password])
  /\ UNCHANGED <<users, refresh_tokens, now, ticks, nextToken, rotationLog,
               nextUserId, check_results, held, nextCheckId,
               blogs, nextBlogId>>

\* ... the answer of findByUsername
RegisterFindByUsername(c) ==
  /\ BagIn(c, inflight)
  /\ c.pc = "register_findByUsername"
  /\ LET arg == [op |-> "register", username |-> c.username, email |-> c.email,
                 password |-> c.password]
     IN IF findByUsername(c.username) # {}
        THEN /\ inflight' = inflight (-) SetToBag({c})
             /\ last' = Result("register", "USERNAME_ALREADY_EXISTS", arg)
        ELSE /\ inflight' = (inflight (-) SetToBag({c}))
                               (+) SetToBag({[c EXCEPT !.pc = "register_create"]})
             /\ UNCHANGED last
  /\ UNCHANGED <<users, refresh_tokens, now, ticks, nextToken, rotationLog,
               nextUserId, check_results, held, nextCheckId,
               blogs, nextBlogId>>

\* ... hashPassword and AuthRepository.create: one INSERT; a unique
\* violation is re-thrown as the driver raised it (code 23505)
RegisterCreate(c) ==
  /\ BagIn(c, inflight)
  /\ c.pc = "register_create"
  /\ nextUserId <= MaxNewUsers
  /\ LET arg == [op |-> "register", username |-> c.username, email |-> c.email,
                 password |-> c.password]
         row == [id |-> uuid_generate_v4(nextUserId), username |-> c.username,
                 email |-> c.email, password_hash |-> hashPassword(c.password)]
     IN IF UniqueViolation(users, row)
        THEN /\ Finish(c, Result("register", PgUniqueViolation, arg))
             /\ UNCHANGED <<users, nextUserId>>
        ELSE /\ users' = users \cup {row}
             /\ nextUserId' = nextUserId + 1
             /\ Finish(c, [Result("register", "ok", arg) EXCEPT !.user = Returning(row)])
  /\ UNCHANGED <<refresh_tokens, now, ticks, nextToken, rotationLog,
               check_results, held, nextCheckId,
               blogs, nextBlogId>>

\* AuthHandler.register: the HTTP status of the answer
registerStatusCode(status) ==
  IF status = "ok" THEN 201
  ELSE IF ErrorCode(status) = "23505" /\ status = "USERNAME_ALREADY_EXISTS" THEN 409
  ELSE IF ErrorCode(status) = "23505" /\ status = "EMAIL_ALREADY_EXISTS" THEN 409
  ELSE IF status = "VALIDATION_ERROR" THEN 400
  ELSE IF status = "DATABASE_CONNECTION_ERROR" THEN 503
  ELSE 500

\* ----------------------------------------------------------- profile update
\* update requests <<userId, payload>>, a payload being a set of
\* <<column, value>>
UpdateInputs ==
  {<<"uuid-alice", {<<"username", "carol">>}>>, <<"uuid-alice", {<<"email", "c@x.com">>}>>,
   <<"uuid-alice", {<<"username", "bob">>}>>, <<"uuid-bob", {<<"username", "carol">>}>>,
   <<"uuid-unknown", {<<"username", "carol">>}>>, <<"", {<<"username", "carol">>}>>,
   <<"uuid-alice", {}>>}

\* UPDATE users SET <the allowed columns of updates> WHERE id = $n
ApplyUpdates(row, updates) ==
  [c \in DOMAIN row |->
     IF c \in {"username", "email"} /\ \E kv \in updates : kv[1] = c
     THEN (CHOOSE kv \in updates : kv[1] = c)[2]
     ELSE row[c]]

UpdateCalls ==
  {[op |-> "updateUserProfile", pc |-> "update_exec", userId |-> id, updates |-> u] :
     id \in {i[1] : i \in UpdateInputs}, u \in {i[2] : i \in UpdateInputs}}

\* UserService.updateUserProfile: validation, then the answer of findById
UpdateProfileStart(userId, updates) ==
  /\ Idle
  /\ LET arg == [op |-> "updateUserProfile", userId |-> userId, updates |-> updates]
     IN IF userId = "" \/ updates = {}
        THEN Answer(Result("updateUserProfile", "VALIDATION_ERROR", arg))
        ELSE IF findById(userId) = {}
        THEN Answer(Result("updateUserProfile", "USER_NOT_FOUND", arg))
        ELSE Suspend([op |-> "updateUserProfile", pc |-> "update_exec",
                      userId |-> userId, updates |-> updates])
  /\ UNCHANGED <<users, refresh_tokens, now, ticks, nextToken, rotationLog,
               nextUserId, check_results, held, nextCheckId,
               blogs, nextBlogId>>

\* ... UserRepository.update: one UPDATE; a unique violation is re-thrown by
\* the repository and is none of the errors the service re-throws
UpdateProfileExec(c) ==
  /\ BagIn(c, inflight)
  /\ c.pc = "update_exec"
  /\ LET arg == [op |-> "updateUserProfile", userId |-> c.userId, updates |-> c.updates]
         rows == findById(c.userId)
     IN IF rows = {}
        THEN /\ Finish(c, Result("updateUserProfile", "UPDATE_FAILED", arg))
             /\ UNCHANGED users
        ELSE LET old == CHOOSE u \in rows : TRUE
                 new == ApplyUpdates(old, c.updates)
             IN IF UniqueViolation(users, new)
                THEN /\ Finish(c, Result("updateUserProfile", "UPDATE_PROFILE_FAILED", arg))
                     /\ UNCHANGED users
                ELSE /\ users' = (users \ {old}) \cup {new}
                     /\ Finish(c, [Result("updateUserProfile", "ok", arg) EXCEPT
                                     !.user = Returning(new)])
  /\ UNCHANGED <<refresh_tokens, now, ticks, nextToken, rotationLog,
               nextUserId, check_results, held, nextCheckId,
               blogs, nextBlogId>>

RegisterCalls ==
  {[op |-> "register", pc |-> at, username |-> u, email |-> e, password |-> pw] :
     at \in {"register_findByUsername", "register_create"},
     u \in {i[1] : i \in RegisterInputs}, e \in {i[2] : i \in RegisterInputs},
     pw \in {i[3] : i \in RegisterInputs}}

RegNext ==
  \/ \E i \in RegisterInputs : RegisterStart(i[1], i[2], i[3])
  \/ \E c \in RegisterCalls : RegisterFindByUsername(c)
  \/ \E c \in RegisterCalls : RegisterCreate(c)
  \/ \E i \in UpdateInputs : UpdateProfileStart(i[1], i[2])
  \/ \E c \in UpdateCalls : UpdateProfileExec(c)

RegSpec == Init /\ [][RegNext]_vars

\* ------------------------------------------------------------- user removal
OnDeleteCascade_off(store, userId) == store

\* refresh_tokens.user_id REFERENCES users(id) ON DELETE CASCADE
OnDeleteCascade(store, userId) == {r \in store : r.user_id # userId}

\* DELETE FROM users WHERE ...: no service method removes a user; the
\* statement comes from outside the services (the test helpers clear users)
DeleteUser(userId) ==
  /\ \E u \in users : u.id = userId
  /\ users' = {u \in users : u.id # userId}
  /\ refresh_tokens' = OnDeleteCascade(refresh_tokens, userId)
  /\ UNCHANGED <<now, ticks, nextToken, inflight, last, rotationLog,
               nextUserId, check_results, held, nextCheckId,
               blogs, nextBlogId>>

FkNext ==
  \/ \E e \in Emails, pw \in Passwords : LoginStart(e, pw)
  \/ \E c \in LoginCalls : LoginStore(c)
  \/ \E t \in RefreshTokenInputs : Logout(t)
  \/ \E id \in UserIdInputs : LogoutAllDevices(id)
  \/ \E t \in TokenInputs : RefreshStart(t)
  \/ \E c \in RefreshCalls : RefreshFindById(c)
  \/ \E id \in RepoUserIds : DeleteUser(id)

FkSpec == Init /\ [][FkNext]_vars

\* ------------------------------------------------------------ access tokens
MaxAccessTicks == 3   \* times the clock is advanced within a token's life

\* server.auth.strategy('jwt'): verify.timeSkewSec and verify.maxAgeSec
TimeSkewSec == 15
MaxAgeSec == 14400
\* the instants the clock shows, for a token issued at 0: issuance, the
\* last second before exp, exp, the end of the tolerated skew, the second
\* after it
AccessClock ==
  <<0, AccessTokenExpiresIn - 1, AccessTokenExpiresIn,
    AccessTokenExpiresIn + TimeSkewSec, AccessTokenExpiresIn + TimeSkewSec + 1>>

jwtStrategy_revocable(token, t) ==
  /\ token.kind = "jwt"
  /\ token.sig = JwtSecret
  /\ token.exp > t - TimeSkewSec
  /\ t - token.iat - TimeSkewSec <= MaxAgeSec
  /\ \E r \in refresh_tokens : r.user_id = token.id

\* the jwt strategy at time t: the key, exp with the tolerated skew, the
\* maximum age; validate answers isValid: true for every decoded token
jwtStrategy(token, t) ==
  /\ token.kind = "jwt"
  /\ token.sig = JwtSecret
  /\ token.exp > t - TimeSkewSec
  /\ t - token.iat - TimeSkewSec <= MaxAgeSec

\* what is presented for verification: nothing, a string that is no JWT, the
\* access token the client kept, that token signed with another key
Presentations == {"none", "garbage", "held", "forged"}
Presented(w) ==
  IF w = "none" THEN NoToken
  ELSE IF w = "garbage" THEN GarbageToken
  ELSE IF w = "held" THEN held
  ELSE [held EXCEPT !.sig = "another secret"]

\* the decoded payload that identifies the user
Claims(token) == [id |-> token.id, username |-> token.username, email |-> token.email]

\* the client keeps the access token of the login that was answered last,
\* and follows that token from then on
Keep ==
  /\ last.at.kind = "jwt"
  /\ held = NoToken
  /\ held' = last.at
  /\ UNCHANGED <<users, refresh_tokens, now, ticks, nextToken, inflight, last,
               rotationLog, nextUserId, check_results, nextCheckId,
               blogs, nextBlogId>>

\* AuthService.verifyToken(token)
VerifyToken(w) ==
  /\ w \in {"held", "forged"} => held.kind = "jwt"
  /\ LET token == Presented(w)
         arg == [op |-> "verifyToken", token |-> token]
         v == verifyToken(token, now)
     IN IF v = "ok"
        THEN Answer([Result("verifyToken", "ok", arg) EXCEPT !.user = Claims(token)])
        ELSE Answer(Result("verifyToken", v, arg))
  /\ UNCHANGED <<users, refresh_tokens, now, ticks, nextToken, rotationLog,
               nextUserId, check_results, held, nextCheckId,
               blogs, nextBlogId>>

\* a request to a route with auth: 'jwt' that carries the token the client
\* kept
Authenticate ==
  /\ held.kind = "jwt"
  /\ LET token == held
         arg == [op |-> "authenticate", token |-> token]
     IN IF jwtStrategy(token, now)
        THEN Answer([Result("authenticate", "ok", arg) EXCEPT !.user = Claims(token)])
        ELSE Answer(Result("authenticate", "UNAUTHORIZED", arg))
  /\ UNCHANGED <<users, refresh_tokens, now, ticks, nextToken, rotationLog,
               nextUserId, check_results, held, nextCheckId,
               blogs, nextBlogId>>

AccessTick ==
  /\ ticks < MaxAccessTicks
  /\ ticks + 2 <= Len(AccessClock)
  /\ now' = AccessClock[ticks + 2]
  /\ ticks' = ticks + 1
  /\ UNCHANGED <<users, refresh_tokens, nextToken, inflight, last, rotationLog,
               nextUserId, check_results, held, nextCheckId,
               blogs, nextBlogId>>

\* the logins that hand out tokens
TokenLogins == {<<Alice.email, "password123">>, <<Bob.email, "bobspassword">>}

TokenNext ==
  \/ \E i \in TokenLogins : LoginStart(i[1], i[2])
  \/ \E c \in LoginCalls : LoginStore(c)
  \/ \E t \in RefreshTokenInputs : Logout(t)
  \/ \E id \in RepoUserIds : LogoutAllDevices(id)
  \/ Keep
  \/ \E w \in Presentations : VerifyToken(w)
  \/ Authenticate
  \/ AccessTick

TokenSpec == Init /\ [][TokenNext]_vars

\* ------------------------------------------------------- database failures
\* error.code of a rejected query: the server refuses connections, its host
\* name does not resolve, the statement was cancelled
DbErrorCodes == {"ECONNREFUSED", "ENOTFOUND", "57014"}

repositoryError_rethrow(code) == code

\* the catch block of every AuthRepository method: the error it throws
repositoryError(code) ==
  IF code \in {"ECONNREFUSED", "ENOTFOUND"} THEN "DATABASE_CONNECTION_ERROR" ELSE code

\* the catch block of the AuthService method op: the error it throws for
\* the error err of a repository call
serviceError(op, err) ==
  IF op = "register"
  THEN IF err \in {"VALIDATION_ERROR", "USER_ALREADY_EXISTS", "DATABASE_CONNECTION_ERROR"}
       THEN err ELSE "REGISTRATION_FAILED"
  ELSE IF op = "login"
  THEN IF err \in {"VALIDATION_ERROR", "USER_NOT_FOUND", "INVALID_CREDENTIALS",
                   "DATABASE_CONNECTION_ERROR"}
       THEN err ELSE "LOGIN_FAILED"
  ELSE IF op = "logout"
  THEN IF err \in {"INVALID_REFRESH_TOKEN", "DATABASE_CONNECTION_ERROR"}
       THEN err ELSE "LOGOUT_FAILED"
  ELSE IF op = "logoutAllDevices"
  THEN IF err \in {"VALIDATION_ERROR", "DATABASE_CONNECTION_ERROR"}
       THEN err ELSE "LOGOUT_ALL_FAILED"
  ELSE IF err \in {"INVALID_TOKEN", "TOKEN_EXPIRED", "USER_NOT_FOUND",
                   "DATABASE_CONNECTION_ERROR"}
       THEN err ELSE "TOKEN_REFRESH_FAILED"

\* the answer of a service method whose repository call was rejected
Rejected(op, arg, code) == Result(op, serviceError(op, repositoryError(code)), arg)

Tables == <<users, refresh_tokens, check_results>>

\* AuthService.register: findByEmail is rejected
RegisterFindByEmailFails(username, email, password, code) ==
  /\ Idle
  /\ ValidRegistration(username, email, password)
  /\ Answer(Rejected("register", [op |-> "register", username |-> username,
                                  email |-> email, password |-> password], code))
  /\ UNCHANGED <<users, refresh_tokens, now, ticks, nextToken, rotationLog,
               nextUserId, check_results, held, nextCheckId,
               blogs, nextBlogId>>

\* AuthService.register: findByUsername is rejected
RegisterFindByUsernameFails(c, code) ==
  /\ BagIn(c, inflight)
  /\ c.pc = "register_findByUsername"
  /\ Finish(c, Rejected("register", [op |-> "register", username |-> c.username,
                                     email |-> c.email, password |-> c.password], code))
  /\ UNCHANGED <<users, refresh_tokens, now, ticks, nextToken, rotationLog,
               nextUserId, check_results, held, nextCheckId,
               blogs, nextBlogId>>

\* AuthService.register: the INSERT of AuthRepository.create is rejected
RegisterCreateFails(c, code) ==
  /\ BagIn(c, inflight)
  /\ c.pc = "register_create"
  /\ Finish(c, Rejected("register", [op |-> "register", username |-> c.username,
                                     email |-> c.email, password |-> c.password], code))
  /\ UNCHANGED <<users, refresh_tokens, now, ticks, nextToken, rotationLog,
               nextUserId, check_results, held, nextCheckId,
               blogs, nextBlogId>>

\* AuthService.login: findByEmail is rejected
LoginFindByEmailFails(email, password, code) ==
  /\ Idle
  /\ Answer(Rejected("login", [op |-> "login", email |-> email,
                               password |-> password], code))
  /\ UNCHANGED <<users, refresh_tokens, now, ticks, nextToken, rotationLog,
               nextUserId, check_results, held, nextCheckId,
               blogs, nextBlogId>>

\* AuthService.login: the password matched and storeRefreshToken is rejected
LoginStoreFails(c, code) ==
  /\ BagIn(c, inflight)
  /\ c.pc = "login_store"
  /\ comparePassword(c.password, c.user.password_hash)
  /\ Finish(c, Rejected("login", [op |-> "login", email |-> c.email,
                                  password |-> c.password], code))
  /\ UNCHANGED <<users, refresh_tokens, now, ticks, nextToken, rotationLog,
               nextUserId, check_results, held, nextCheckId,
               blogs, nextBlogId>>

\* AuthService.logout: deleteRefreshToken is rejected
LogoutFails(token, code) ==
  /\ Idle
  /\ token \in PresentableRefreshTokens
  /\ token.kind # "none"
  /\ Answer(Rejected("logout", [op |-> "logout", token |-> token], code))
  /\ UNCHANGED <<users, refresh_tokens, now, ticks, nextToken, rotationLog,
               nextUserId, check_results, held, nextCheckId,
               blogs, nextBlogId>>

\* AuthService.logoutAllDevices: deleteAllRefreshTokensForUser is rejected
LogoutAllDevicesFails(userId, code) ==
  /\ Idle
  /\ userId # ""
  /\ Answer(Rejected("logoutAllDevices",
                     [op |-> "logoutAllDevices", userId |-> userId], code))
  /\ UNCHANGED <<users, refresh_tokens, now, ticks, nextToken, rotationLog,
               nextUserId, check_results, held, nextCheckId,
               blogs, nextBlogId>>

\* AuthService.refreshToken: findById is rejected
RefreshFindByIdFails(c, code) ==
  /\ BagIn(c, inflight)
  /\ c.pc = "refresh_findById"
  /\ Finish(c, Rejected("refreshToken", [op |-> "refreshToken", token |-> c.token], code))
  /\ UNCHANGED <<users, refresh_tokens, now, ticks, nextToken, rotationLog,
               nextUserId, check_results, held, nextCheckId,
               blogs, nextBlogId>>

\* the register payloads that get as far as the database
FailRegisterInputs == {<<"carol", "c@x.com", "password123">>}

FailNext ==
  \/ \E i \in FailRegisterInputs : RegisterStart(i[1], i[2], i[3])
  \/ \E c \in RegisterCalls : RegisterFindByUsername(c)
  \/ \E i \in FailRegisterInputs, code \in DbErrorCodes :
        RegisterFindByEmailFails(i[1], i[2], i[3], code)
  \/ \E c \in RegisterCalls, code \in DbErrorCodes : RegisterFindByUsernameFails(c, code)
  \/ \E c \in RegisterCalls, code \in DbErrorCodes : RegisterCreateFails(c, code)
  \/ \E i \in TokenLogins : LoginStart(i[1], i[2])
  \/ \E c \in LoginCalls : LoginStore(c)
  \/ \E i \in TokenLogins, code \in DbErrorCodes : LoginFindByEmailFails(i[1], i[2], code)
  \/ \E c \in LoginCalls, code \in DbErrorCodes : LoginStoreFails(c, code)
  \/ \E t \in RefreshTokenInputs, code \in DbErrorCodes : LogoutFails(t, code)
  \/ \E id \in RepoUserIds, code \in DbErrorCodes : LogoutAllDevicesFails(id, code)
  \/ \E t \in TokenInputs : RefreshStart(t)
  \/ \E c \in RefreshCalls, code \in DbErrorCodes : RefreshFindByIdFails(c, code)

FailSpec == Init /\ [][FailNext]_vars

\* ------------------------------------------------------------ health checks
MaxChecks == 2      \* rows the application inserts into check_results

\* check_results.id: uuid_generate_v4(), the n-th value drawn
check_uuid(n) == <<"check-1", "check-2", "check-3", "check-4">>[n]

\* the {id} of DELETE /api/v1/users/checks/{id}: the route admits uuids only
CheckIdInputs == {"check-1", "check-2", "check-9"}

\* request.auth.credentials.id of the caller
CheckUserIds == {"uuid-alice", "uuid-bob"}

\* CheckRepository.findById: SELECT * FROM check_results WHERE id = $1
CheckRepository_findById(id) == {r \in check_results : r.id = id}

\* CheckRepository.deleteById: DELETE FROM check_results WHERE id = $1
CheckRepository_deleteById(id) == {r \in check_results : r.id # id}

isOwner_anyone(checkRecord, userId) == TRUE

\* checkRecord.user_id !== userId, negated
isOwner(checkRecord, userId) == checkRecord.user_id = userId

\* payload.diabetes_result when the request does not send the field
NotSent == -1

\* what _getHuggingFacePrediction yields when it throws PREDICTION_FAILED
PREDICTION_FAILED == -2

\* the diabetes_result values a request payload can carry: the schema
\* admits 0 and 1 and lets the field be left out
CallerResults == {NotSent, 0, 1}

\* answers of the inference API: response.ok, whether the body's
\* predictions is an array, and its {label, score} elements
ApiResponse(ok, isArray, predictions) ==
  [ok |-> ok, isArray |-> isArray, predictions |-> predictions]

Scored(label, score) == [label |-> label, score |-> score]

ApiResponses ==
  {ApiResponse(FALSE, FALSE, <<>>),
   ApiResponse(TRUE, FALSE, <<>>),
   ApiResponse(TRUE, TRUE, <<>>),
   ApiResponse(TRUE, TRUE, <<Scored("non-diabetic", 9), Scored("diabetic", 1)>>),
   ApiResponse(TRUE, TRUE, <<Scored("non-diabetic", 3), Scored("diabetic", 7)>>),
   ApiResponse(TRUE, TRUE, <<Scored("diabetic", 5), Scored("non-diabetic", 5)>>),
   ApiResponse(TRUE, TRUE, <<Scored("prediabetic", 9), Scored("diabetic", 1)>>)}

\* predictions.reduce((prev, current) => prev.score > current.score ? prev : current)
\* of a non-empty array, folded from the left without an initial value
RECURSIVE reduceTop(_, _)
reduceTop(prev, rest) ==
  IF rest = <<>> THEN prev
  ELSE reduceTop(IF prev.score > Head(rest).score THEN prev ELSE Head(rest), Tail(rest))

\* CheckService._getHuggingFacePrediction, from the answer of fetch on:
\* 0 or 1 for the label with the highest score, PREDICTION_FAILED for a
\* response that is not ok, a body without an array, an empty array (reduce
\* throws) and an unknown label
getHuggingFacePrediction(response) ==
  IF ~response.ok THEN PREDICTION_FAILED
  ELSE IF ~response.isArray THEN PREDICTION_FAILED
  ELSE IF response.predictions = <<>> THEN PREDICTION_FAILED
  ELSE LET topPrediction == reduceTop(Head(response.predictions), Tail(response.predictions))
       IN IF topPrediction.label = "non-diabetic" THEN 0
          ELSE IF topPrediction.label = "diabetic" THEN 1
          ELSE PREDICTION_FAILED

assignPrediction_keepsCaller(callerResult, diabetesResult) ==
  IF callerResult = NotSent THEN diabetesResult ELSE callerResult

\* checkData.diabetes_result = diabetesResult
assignPrediction(callerResult, diabetesResult) == diabetesResult

\* CheckService.createCheckHistory: the required fields are tested, the
\* prediction is fetched and its answer put into checkData, then the INSERT
\* of CheckRepository.create is sent
CreateCheckStart(userId, callerResult, response) ==
  /\ Idle
  /\ LET arg == [op |-> "createCheckHistory", userId |-> userId,
                 diabetes_result |-> callerResult]
         diabetesResult == getHuggingFacePrediction(response)
     IN IF userId = ""
        THEN Answer(Result("createCheckHistory", "VALIDATION_ERROR", arg))
        ELSE IF diabetesResult = PREDICTION_FAILED
        THEN Answer(Result("createCheckHistory", "CREATE_CHECK_FAILED", arg))
        ELSE Suspend([pc |-> "create_insert", op |-> "createCheckHistory",
                      userId |-> userId, callerResult |-> callerResult,
                      predicted |-> diabetesResult,
                      diabetes_result |-> assignPrediction(callerResult, diabetesResult)])
  /\ UNCHANGED <<users, refresh_tokens, now, ticks, nextToken, rotationLog,
               nextUserId, check_results, held, nextCheckId,
               blogs, nextBlogId>>

\* CheckRepository.create: INSERT INTO check_results ... RETURNING; user_id
\* references users(id), and a violation (23503) comes back from the service
\* as its generic failure
CreateCheckInsert(c) ==
  /\ BagIn(c, inflight)
  /\ c.pc = "create_insert"
  /\ nextCheckId <= MaxChecks
  /\ LET arg == [op |-> "createCheckHistory", userId |-> c.userId,
                 diabetes_result |-> c.callerResult]
     IN IF findById(c.userId) = {}
        THEN /\ Finish(c, Result("createCheckHistory", "CREATE_CHECK_FAILED", arg))
             /\ UNCHANGED <<check_results, nextCheckId>>
        ELSE /\ check_results' = check_results \cup
                  {[id |-> check_uuid(nextCheckId), user_id |-> c.userId,
                    diabetes_result |-> c.diabetes_result]}
             /\ nextCheckId' = nextCheckId + 1
             /\ Finish(c, Result("createCheckHistory", "ok", arg))
  /\ UNCHANGED <<users, refresh_tokens, now, ticks, nextToken, rotationLog,
               nextUserId, held, blogs, nextBlogId>>

CreateCheckCalls ==
  {[pc |-> "create_insert", op |-> "createCheckHistory", userId |-> u,
    callerResult |-> r, predicted |-> p, diabetes_result |-> d] :
     u \in CheckUserIds \cup {"uuid-unknown"}, r \in CallerResults,
     p \in {0, 1}, d \in {0, 1}}

\* CheckService.deleteCheckHistory: the answer of findById, the existence
\* and ownership tests, then deleteById is sent
DeleteCheckStart(userId, checkId) ==
  /\ Idle
  /\ LET arg == [op |-> "deleteCheckHistory", userId |-> userId, checkId |-> checkId]
         found == CheckRepository_findById(checkId)
     IN IF found = {}
        THEN Answer(Result("deleteCheckHistory", "NOT_FOUND", arg))
        ELSE IF \E checkRecord \in found : ~isOwner(checkRecord, userId)
        THEN Answer(Result("deleteCheckHistory", "FORBIDDEN", arg))
        ELSE Suspend([pc |-> "delete_deleteById", op |-> "deleteCheckHistory",
                      userId |-> userId, checkId |-> checkId])
  /\ UNCHANGED <<users, refresh_tokens, now, ticks, nextToken, rotationLog,
               nextUserId, check_results, held, nextCheckId,
               blogs, nextBlogId>>

\* CheckService.deleteCheckHistory: deleteById runs; the row count it
\* returns is not looked at
DeleteCheckExec(c) ==
  /\ BagIn(c, inflight)
  /\ c.pc = "delete_deleteById"
  /\ check_results' = CheckRepository_deleteById(c.checkId)
  /\ Finish(c, Result("deleteCheckHistory", "ok",
                      [op |-> "deleteCheckHistory", userId |-> c.userId,
                       checkId |-> c.checkId]))
  /\ UNCHANGED <<users, refresh_tokens, now, ticks, nextToken, rotationLog,
               nextUserId, held, nextCheckId,
               blogs, nextBlogId>>

\* CheckHandler.deleteCheckHistory: the HTTP status of an outcome
deleteCheckStatusCode(status) ==
  IF status = "ok" THEN 200
  ELSE IF status = "NOT_FOUND" THEN 404
  ELSE IF status = "FORBIDDEN" THEN 403
  ELSE 500

DeleteCheckCalls ==
  {[pc |-> "delete_deleteById", op |-> "deleteCheckHistory", userId |-> u, checkId |-> k] :
     u \in CheckUserIds, k \in CheckIdInputs}

\* an answer of the inference API whose top label is 'diabetic'
DiabeticAnswer ==
  ApiResponse(TRUE, TRUE, <<Scored("non-diabetic", 3), Scored("diabetic", 7)>>)

CheckNext ==
  \/ \E u \in CheckUserIds \cup {"", "uuid-unknown"} :
        CreateCheckStart(u, NotSent, DiabeticAnswer)
  \/ \E c \in CreateCheckCalls : CreateCheckInsert(c)
  \/ \E u \in CheckUserIds, k \in CheckIdInputs : DeleteCheckStart(u, k)
  \/ \E c \in DeleteCheckCalls : DeleteCheckExec(c)

CheckSpec == Init /\ [][CheckNext]_vars

\* createCheckHistory alone, with every payload value and every answer of
\* the inference API
PredictNext ==
  \/ \E u \in {"uuid-alice", "", "uuid-unknown"}, r \in CallerResults,
        response \in ApiResponses : CreateCheckStart(u, r, response)
  \/ \E c \in CreateCheckCalls : CreateCheckInsert(c)

PredictSpec == Init /\ [][PredictNext]_vars

\* ---------------------------------------------------------- password change
\* changePassword(userId, currentPassword, newPassword) arguments
ChangePasswordInputs ==
  {<<"uuid-alice", "password123", "newpassword1">>,
   <<"uuid-bob", "bobspassword", "newpassword1">>,
   <<"uuid-alice", "bobspassword", "newpassword1">>,
   <<"uuid-alice", "password123", "short">>,
   <<"uuid-alice", "password123", "password123">>,
   <<"uuid-alice", "", "newpassword1">>,
   <<"uuid-alice", "password123", "">>,
   <<"", "password123", "newpassword1">>,
   <<"uuid-unknown", "password123", "newpassword1">>}

\* the outcome of evaluating an identifier that has no binding
ReferenceError == "ReferenceError"

verifyPassword_isComparePassword(password, hashedPassword) ==
  comparePassword(password, hashedPassword)

\* verifyPassword as the module of UserService sees it: the module imports
\* hashPassword only and declares nothing of this name
verifyPassword(password, hashedPassword) == ReferenceError

\* UserRepository.updatePassword: UPDATE users SET password_hash = $1 WHERE id = $2
updatePassword(id, hashedPassword) ==
  {IF u.id = id THEN [u EXCEPT !.password_hash = hashedPassword] ELSE u : u \in users}

\* UserService.changePassword: validation, findByIdWithPassword, the call of
\* verifyPassword, then hashPassword and updatePassword
ChangePassword(userId, currentPassword, newPassword) ==
  /\ Idle
  /\ LET arg == [op |-> "changePassword", userId |-> userId,
                 currentPassword |-> currentPassword, newPassword |-> newPassword]
         found == findById(userId)
         userWithPassword == CHOOSE u \in found : TRUE
         isCurrentPasswordValid ==
           verifyPassword(currentPassword, userWithPassword.password_hash)
     IN IF \/ userId = "" \/ currentPassword = "" \/ newPassword = ""
           \/ Len(newPassword) < 8 \/ currentPassword = newPassword
        THEN Answer(Result("changePassword", "VALIDATION_ERROR", arg)) /\ UNCHANGED users
        ELSE IF found = {}
        THEN Answer(Result("changePassword", "USER_NOT_FOUND", arg)) /\ UNCHANGED users
        ELSE IF isCurrentPasswordValid = ReferenceError
        THEN \* caught by the method's catch block, which knows no such error
             Answer(Result("changePassword", "CHANGE_PASSWORD_FAILED", arg))
             /\ UNCHANGED users
        ELSE IF ~isCurrentPasswordValid
        THEN Answer(Result("changePassword", "INVALID_CURRENT_PASSWORD", arg))
             /\ UNCHANGED users
        ELSE /\ users' = updatePassword(userId, hashPassword(newPassword))
             /\ Answer(Result("changePassword", "ok", arg))
  /\ UNCHANGED <<refresh_tokens, now, ticks, nextToken, rotationLog,
               nextUserId, check_results, held, nextCheckId,
               blogs, nextBlogId>>

\* logins with the old and with the new password
PwLogins ==
  {<<Alice.email, "password123">>, <<Alice.email, "newpassword1">>,
   <<Bob.email, "bobspassword">>}

PwLoginCalls ==
  {[op |-> "login", pc |-> "login_store", email |-> i[1], password |-> i[2], user |-> u] :
     i \in PwLogins, u \in {Alice, Bob}}

PwNext ==
  \/ \E i \in ChangePasswordInputs : ChangePassword(i[1], i[2], i[3])
  \/ \E i \in PwLogins : LoginStart(i[1], i[2])
  \/ \E c \in PwLoginCalls : LoginStore(c)

PwSpec == Init /\ [][PwNext]_vars

\* ------------------------------------------------------- user HTTP handlers
\* UserHandler.changePassword: the HTTP status of an outcome
changePasswordStatusCode(status) ==
  IF status = "ok" THEN 200
  ELSE IF status = "INVALID_CREDENTIALS" THEN 401
  ELSE IF status = "USER_NOT_FOUND" THEN 404
  ELSE IF status = "DATABASE_CONNECTION_ERROR" THEN 503
  ELSE 500

\* UserHandler.updateProfile: the HTTP status of an outcome; 409 needs the
\* code 23505 and a message that includes USERNAME_ALREADY_EXISTS or
\* EMAIL_ALREADY_EXISTS
updateProfileStatusCode(status) ==
  IF status = "ok" THEN 200
  ELSE IF ErrorCode(status) = "23505" /\
          status \in {"USERNAME_ALREADY_EXISTS", "EMAIL_ALREADY_EXISTS"} THEN 409
  ELSE IF status = "USER_NOT_FOUND" THEN 404
  ELSE IF status = "VALIDATION_ERROR" THEN 400
  ELSE IF status = "DATABASE_CONNECTION_ERROR" THEN 503
  ELSE 500

\* --------------------------------------------------------------------- blogs
MaxBlogs == 2       \* rows the application inserts into blogs

\* SQL NULL in a timestamp column, undefined in a payload
NullDate == -1

\* text is a sequence of characters
UpperCase == <<"A", "B", "C", "D", "E", "F", "G", "H", "I", "J", "K", "L", "M",
               "N", "O", "P", "Q", "R", "S", "T", "U", "V", "W", "X", "Y", "Z">>
LowerCase == <<"a", "b", "c", "d", "e", "f", "g", "h", "i", "j", "k", "l", "m",
               "n", "o", "p", "q", "r", "s", "t", "u", "v", "w", "x", "y", "z">>

LowerChar(ch) ==
  IF \E i \in 1..26 : UpperCase[i] = ch
  THEN LowerCase[CHOOSE i \in 1..26 : UpperCase[i] = ch]
  ELSE ch

LOWER_identity(s) == s

\* LOWER() of PostgreSQL
LOWER(s) == [i \in 1..Len(s) |-> LowerChar(s[i])]

RECURSIVE trimStart(_)
trimStart(s) == IF s # <<>> /\ Head(s) = " " THEN trimStart(Tail(s)) ELSE s

RECURSIVE trimEnd(_)
trimEnd(s) ==
  IF s # <<>> /\ s[Len(s)] = " " THEN trimEnd(SubSeq(s, 1, Len(s) - 1)) ELSE s

\* String.prototype.trim
trim(s) == trimEnd(trimStart(s))

\* titles: two that differ in case only, one with a leading blank, another
Dia == <<"D", "i", "a">>
DIA == <<"D", "I", "A">>
BlankDia == <<" ", "D", "i", "a">>
Fit == <<"F", "i", "t">>

\* contents: plain text without markup, a sequence of words, shorter than
\* the 200 characters of maxLength
EatGreens == <<"eat", "more", "greens">>
WalkDaily == <<"walk", "daily">>

\* BlogService._calculateReadingTime
calculateReadingTime(content) ==
  LET wordCount == Len(content)
      minutes == (wordCount + 199) \div 200
  IN IF minutes > 1 THEN minutes ELSE 1

\* BlogService._generateExcerpt, for a clean content of maxLength or less
generateExcerpt(content) == content

validCategories == {"diabetes", "nutrition", "lifestyle", "exercise", "mental-health"}

\* the columns a payload can set (allowedUpdateColumns without tags and
\* featured_image_url)
BlogColumns ==
  {"title", "content", "excerpt", "category", "author", "status",
   "reading_time_minutes", "published_at"}

Undefined ==
  [title |-> <<>>, content |-> <<>>, excerpt |-> <<>>, category |-> "", author |-> "",
   status |-> "", reading_time_minutes |-> 0, published_at |-> NullDate]

\* a payload object: the keys it has and their values
Payload(fields) == [has |-> DOMAIN fields, val |-> fields @@ Undefined]

\* payload[key] is truthy
Truthy(payload, key) == key \in payload.has /\ payload.val[key] # Undefined[key]

With(payload, key, value) ==
  [has |-> payload.has \cup {key}, val |-> [payload.val EXCEPT ![key] = value]]

\* createBlog payloads
CreatePayloads ==
  {Payload([title |-> Dia, content |-> EatGreens, category |-> "diabetes", author |-> "ann"]),
   Payload([title |-> DIA, content |-> WalkDaily, category |-> "exercise", author |-> "ben",
            status |-> "draft"]),
   Payload([title |-> Fit, content |-> WalkDaily, category |-> "exercise", author |-> "ben",
            status |-> "draft", reading_time_minutes |-> 5]),
   Payload([title |-> BlankDia, content |-> EatGreens, category |-> "diabetes",
            author |-> "ann", status |-> "archived"]),
   Payload([content |-> EatGreens, category |-> "diabetes", author |-> "ann"]),
   Payload([title |-> Fit, content |-> EatGreens, category |-> "Test Category",
            author |-> "ann"])}

\* updateBlog payloads
UpdatePayloads ==
  {Payload([title |-> Fit]),
   Payload([title |-> DIA]),
   Payload([status |-> "draft", reading_time_minutes |-> 15]),
   Payload([status |-> "published"]),
   Payload([content |-> WalkDaily]),
   Payload([author |-> "cy"]),
   Payload(<<>>)}

\* gen_random_uuid(), the n-th value drawn
gen_random_uuid(n) == <<"blog-1", "blog-2", "blog-3", "blog-4">>[n]

BlogIdInputs == {"blog-1", "blog-2", "blog-9", ""}

findByTitle_none(title) == {}

\* BlogRepository.findByTitle: ... WHERE LOWER(title) = LOWER($1)
findByTitle(title) == {b \in blogs : LOWER(b.title) = LOWER(title)}

\* BlogRepository.findById: ... WHERE id = $1
findBlogById(id) == {b \in blogs : b.id = id}

\* BlogService.createBlog: the payload after the defaults were filled in at
\* time t
CreateDefaults(blogData, t) ==
  LET d1 == IF Truthy(blogData, "reading_time_minutes") THEN blogData
            ELSE With(blogData, "reading_time_minutes",
                      calculateReadingTime(blogData.val.content))
      d2 == IF Truthy(d1, "excerpt") THEN d1
            ELSE With(d1, "excerpt", generateExcerpt(d1.val.content))
      d3 == IF Truthy(d2, "status") THEN d2 ELSE With(d2, "status", "published")
  IN IF d3.val.status = "published" /\ ~Truthy(d3, "published_at")
     THEN With(d3, "published_at", t) ELSE d3

\* BlogRepository.create: the parameters of the INSERT, put together at time t
InsertParams(blogData, t) ==
  [title |-> blogData.val.title,
   content |-> blogData.val.content,
   excerpt |-> blogData.val.excerpt,
   category |-> blogData.val.category,
   author |-> blogData.val.author,
   status |-> IF Truthy(blogData, "status") THEN blogData.val.status ELSE "published",
   reading_time_minutes |-> blogData.val.reading_time_minutes,
   published_at |-> IF Truthy(blogData, "published_at") THEN blogData.val.published_at
                    ELSE t]

CreateBlogCalls ==
  {[op |-> "createBlog", pc |-> "create_insert", blogData |-> d, at |-> t] :
     d \in CreatePayloads, t \in Times}

\* BlogService.createBlog: the required fields, the answer of findByTitle,
\* the category, the defaults, and the INSERT is sent
CreateBlogStart(blogData) ==
  /\ Idle
  /\ nextBlogId <= MaxBlogs
  /\ LET arg == [op |-> "createBlog", blogData |-> blogData]
     IN IF \E k \in {"title", "content", "category", "author"} : ~Truthy(blogData, k)
        THEN Answer(Result("createBlog", "MISSING_REQUIRED_FIELDS", arg))
        ELSE IF findByTitle(trim(blogData.val.title)) # {}
        THEN Answer(Result("createBlog", "DUPLICATE_BLOG_TITLE", arg))
        ELSE IF blogData.val.category \notin validCategories
        THEN Answer(Result("createBlog", "INVALID_CATEGORY", arg))
        ELSE Suspend([op |-> "createBlog", pc |-> "create_insert",
                      blogData |-> blogData, at |-> now])
  /\ UNCHANGED <<users, refresh_tokens, now, ticks, nextToken, rotationLog,
               nextUserId, check_results, held, nextCheckId, blogs, nextBlogId>>

\* ... BlogRepository.create: INSERT INTO blogs ... RETURNING; the table has
\* no unique index
CreateBlogInsert(c) ==
  /\ BagIn(c, inflight)
  /\ c.pc = "create_insert"
  /\ nextBlogId <= MaxBlogs
  /\ LET row == InsertParams(CreateDefaults(c.blogData, c.at), c.at) @@
                [id |-> gen_random_uuid(nextBlogId), updated_at |-> now]
     IN /\ blogs' = blogs \cup {row}
        /\ nextBlogId' = nextBlogId + 1
        /\ Finish(c, Result("createBlog", "ok",
                            [op |-> "createBlog", blogData |-> c.blogData]))
  /\ UNCHANGED <<users, refresh_tokens, now, ticks, nextToken, rotationLog,
               nextUserId, check_results, held, nextCheckId>>

PreparePayload_clearsDate(seenStatus, seenPublishedAt, blogDataToUpdate, t) ==
  With(blogDataToUpdate, "published_at", NullDate)

\* BlogService.updateBlog: the payload handed to the repository, for a blog
\* that was read with the status seenStatus and the date seenPublishedAt
PreparePayload(seenStatus, seenPublishedAt, blogDataToUpdate, t) ==
  LET p1 == IF "content" \in blogDataToUpdate.has /\
               "reading_time_minutes" \notin blogDataToUpdate.has
            THEN With(blogDataToUpdate, "reading_time_minutes",
                      calculateReadingTime(blogDataToUpdate.val.content))
            ELSE blogDataToUpdate
      p2 == IF "content" \in blogDataToUpdate.has /\ "excerpt" \notin blogDataToUpdate.has
            THEN With(p1, "excerpt", generateExcerpt(blogDataToUpdate.val.content))
            ELSE p1
      newStatus == IF "status" \in p2.has THEN p2.val.status ELSE seenStatus
  IN IF newStatus = "published"
     THEN IF Truthy(p2, "published_at") THEN p2
          ELSE IF seenPublishedAt = NullDate THEN With(p2, "published_at", t)
          ELSE p2
     ELSE IF "published_at" \notin p2.has THEN With(p2, "published_at", NullDate)
     ELSE p2

BlogUpdate_allColumns(row, payload, t) ==
  [k \in DOMAIN row |->
     IF k \in BlogColumns THEN payload.val[k]
     ELSE IF k = "updated_at" THEN t ELSE row[k]]

\* BlogRepository.update: UPDATE blogs SET <the columns the payload has>,
\* updated_at = NOW() WHERE id = $n
BlogUpdate(row, payload, t) ==
  [k \in DOMAIN row |->
     IF k \in BlogColumns /\ k \in payload.has THEN payload.val[k]
     ELSE IF k = "updated_at" THEN t ELSE row[k]]

BlogStatuses == {"draft", "published", "archived"}

UpdateBlogCalls ==
  {[op |-> "updateBlog", pc |-> at, blogId |-> id, payload |-> p,
    seenStatus |-> s, seenPublishedAt |-> d, at |-> t] :
     at \in {"update_findByTitle", "update_update"},
     id \in BlogIdInputs \ {""}, p \in UpdatePayloads \ {Payload(<<>>)},
     s \in BlogStatuses, d \in Times \cup {NullDate}, t \in Times}

\* BlogService.updateBlog: the id, the answer of findById, and either
\* findByTitle or the UPDATE is sent
UpdateBlogStart(blogId, payload) ==
  /\ Idle
  /\ LET arg == [op |-> "updateBlog", blogId |-> blogId, payload |-> payload]
         found == findBlogById(blogId)
     IN IF blogId = "" \/ found = {}
        THEN Answer(Result("updateBlog", "BLOG_NOT_FOUND", arg))
        ELSE IF payload.has = {}
        THEN Answer(Result("updateBlog", "ok", arg))
        ELSE LET existingBlog == CHOOSE b \in found : TRUE
                 call == [op |-> "updateBlog", pc |-> "update_update", blogId |-> blogId,
                          payload |-> payload, seenStatus |-> existingBlog.status,
                          seenPublishedAt |-> existingBlog.published_at, at |-> now]
             IN IF Truthy(payload, "title") /\ trim(payload.val.title) # existingBlog.title
                THEN Suspend([call EXCEPT !.pc = "update_findByTitle"])
                ELSE IF Truthy(payload, "category") /\
                        payload.val.category \notin validCategories
                THEN Answer(Result("updateBlog", "INVALID_CATEGORY", arg))
                ELSE Suspend(call)
  /\ UNCHANGED <<users, refresh_tokens, now, ticks, nextToken, rotationLog,
               nextUserId, check_results, held, nextCheckId, blogs, nextBlogId>>

\* ... the answer of findByTitle: rows[0] of the rows that match, in no
\* particular order
UpdateBlogFindByTitle(c) ==
  /\ BagIn(c, inflight)
  /\ c.pc = "update_findByTitle"
  /\ LET arg == [op |-> "updateBlog", blogId |-> c.blogId, payload |-> c.payload]
         rows == findByTitle(trim(c.payload.val.title))
     IN \/ /\ \E otherBlogWithSameTitle \in rows : otherBlogWithSameTitle.id # c.blogId
           /\ Finish(c, Result("updateBlog", "DUPLICATE_BLOG_TITLE", arg))
        \/ /\ rows = {} \/ \E otherBlogWithSameTitle \in rows :
                              otherBlogWithSameTitle.id = c.blogId
           /\ IF Truthy(c.payload, "category") /\
                 c.payload.val.category \notin validCategories
              THEN Finish(c, Result("updateBlog", "INVALID_CATEGORY", arg))
              ELSE /\ inflight' = (inflight (-) SetToBag({c})) (+)
                        SetToBag({[c EXCEPT !.pc = "update_update", !.at = now]})
                   /\ UNCHANGED last
  /\ UNCHANGED <<users, refresh_tokens, now, ticks, nextToken, rotationLog,
               nextUserId, check_results, held, nextCheckId, blogs, nextBlogId>>

\* ... BlogRepository.update: the UPDATE runs
UpdateBlogExec(c) ==
  /\ BagIn(c, inflight)
  /\ c.pc = "update_update"
  /\ LET arg == [op |-> "updateBlog", blogId |-> c.blogId, payload |-> c.payload]
         rows == findBlogById(c.blogId)
         payloadToUpdate == PreparePayload(c.seenStatus, c.seenPublishedAt, c.payload, c.at)
     IN IF rows = {}
        THEN /\ Finish(c, Result("updateBlog", "BLOG_UPDATE_FAILED", arg))
             /\ UNCHANGED blogs
        ELSE LET row == CHOOSE b \in rows : TRUE
             IN /\ blogs' = (blogs \ {row}) \cup {BlogUpdate(row, payloadToUpdate, now)}
                /\ Finish(c, Result("updateBlog", "ok", arg))
  /\ UNCHANGED <<users, refresh_tokens, now, ticks, nextToken, rotationLog,
               nextUserId, check_results, held, nextCheckId, nextBlogId>>

\* BlogHandler.updateBlog: the HTTP status of an outcome
updateBlogStatusCode(status) ==
  IF status = "ok" THEN 200
  ELSE IF status \in {"BLOG_NOT_FOUND", "VALIDATION_ERROR"} THEN 404
  ELSE IF status = "DUPLICATE_BLOG_TITLE" THEN 409
  ELSE IF status = "INVALID_CATEGORY" THEN 400
  ELSE IF status = "CONTENT_TOO_LARGE" THEN 413
  ELSE IF status = "UNAUTHORIZED_ACCESS" THEN 403
  ELSE IF status = "DATABASE_CONNECTION_ERROR" THEN 503
  ELSE 500

\* the payloads of the calls that compete for a title
TitleCreatePayloads ==
  {d \in CreatePayloads : d.val.title \in {Dia, DIA, Fit} /\ d.val.category \in validCategories}

TitleUpdatePayloads == {Payload([title |-> DIA])}

TitleBlogIds == {"blog-1", "blog-2"}

BlogNext ==
  \/ \E d \in TitleCreatePayloads : CreateBlogStart(d)
  \/ \E c \in CreateBlogCalls : CreateBlogInsert(c)
  \/ \E id \in TitleBlogIds, p \in TitleUpdatePayloads : UpdateBlogStart(id, p)
  \/ \E c \in UpdateBlogCalls : UpdateBlogFindByTitle(c)
  \/ \E c \in UpdateBlogCalls : UpdateBlogExec(c)

BlogSpec == Init /\ [][BlogNext]_vars

\* a client that sends a call after the call before it was answered
SeqCreateBlog(blogData) == inflight = EmptyBag /\ CreateBlogStart(blogData)

SeqUpdateBlog(blogId, payload) == inflight = EmptyBag /\ UpdateBlogStart(blogId, payload)

\* the payloads of that client
SeqCreatePayloads ==
  {d \in CreatePayloads : d.val.title \in {<<>>, Dia, Fit} /\ d.val.category \in validCategories}

SeqUpdatePayloads ==
  {p \in UpdatePayloads : "title" \notin p.has /\ "author" \notin p.has}

SeqBlogIds == {"blog-1", "blog-2", "blog-9"}

BlogSeqNext ==
  \/ \E d \in SeqCreatePayloads : SeqCreateBlog(d)
  \/ \E c \in CreateBlogCalls : CreateBlogInsert(c)
  \/ \E id \in SeqBlogIds, p \in SeqUpdatePayloads : SeqUpdateBlog(id, p)
  \/ \E c \in UpdateBlogCalls : UpdateBlogExec(c)
  \/ \E d \in TickSteps : Tick(d)

BlogSeqSpec == Init /\ [][BlogSeqNext]_vars

\* ------------------------------------------- register, login and logout
\* register payloads: a new user, a second claim on the same email, a
\* registered user, a password that is too short
AuthRegisterInputs ==
  {<<"carol", "c@x.com", "password123">>, <<"dave", "c@x.com", "password123">>,
   <<"alice", "a@x.com", "password123">>, <<"carol", "c@x.com", "short">>}

\* logins: the right password, a wrong one, an email nobody has
AuthLogins ==
  {<<Alice.email, "password123">>, <<Alice.email, "bobspassword">>,
   <<"nobody@x.com", "password123">>}

AuthNext ==
  \/ \E i \in AuthRegisterInputs : RegisterStart(i[1], i[2], i[3])
  \/ \E c \in RegisterCalls : RegisterFindByUsername(c)
  \/ \E c \in RegisterCalls : RegisterCreate(c)
  \/ \E i \in AuthLogins : LoginStart(i[1], i[2])
  \/ \E c \in LoginCalls : LoginStore(c)
  \/ \E t \in RefreshTokenInputs : Logout(t)

AuthSpec == Init /\ [][AuthNext]_vars

\* ====================================================================
\* Properties
\* ====================================================================
StoredTokens == {r.token : r \in refresh_tokens}
IssuedTokens == 1..(nextToken - 1)
TokenRows(n) == {r \in refresh_tokens : r.token = n}
\* stored, not past its expiry, and owned by a user that exists
Rotatable(n) ==
  \E r \in refresh_tokens :
     r.token = n /\ now <= r.expires_at /\ \E u \in users : u.id = r.user_id
Rotated == {pair[1] : pair \in rotationLog}

\* a refreshToken call that presented token t returns in
\* this step
RefreshReturns(t) ==
  \/ RefreshStart(t) /\ inflight' = inflight
  \/ \E c \in RefreshCalls : c.token = t /\ RefreshFindById(c)

\* C1: rotation is single-use.  The refresh of a stored, unexpired refresh
\* token rt returns a new pair with rt2 # rt, and every refresh of rt after
\* a refresh of rt succeeded fails with INVALID_REFRESH_TOKEN.
C1_RotationSingleUse ==
  [][\A n \in IssuedTokens :
       RefreshReturns(Opaque(n)) =>
         /\ Rotatable(n) =>
              last'.status = "ok" /\ last'.rt \notin {0, n} /\ last'.at.kind = "jwt"
         /\ n \in Rotated => last'.status = "INVALID_REFRESH_TOKEN"]_vars

\* C2: of the replaceRefreshToken calls that present the same stored token
\* at most one inserts a replacement, the table never holds two replacements
\* of one old token, and a call that finds the old token already replaced
\* fails and inserts nothing.
C2_AtMostOneReplacement ==
  [][/\ \A a, b \in rotationLog' : a[1] = b[1] => a = b
     /\ \A q, r \in refresh_tokens' :
          (\E old \in Rotated' : <<old, q.token>> \in rotationLog'
                                 /\ <<old, r.token>> \in rotationLog') => q = r
     /\ \A c \in ReplaceCalls :
          (RepoReplaceExec(c) /\ c.oldToken \in Rotated) =>
             /\ last'.status = "OLD_TOKEN_NOT_FOUND"
             /\ refresh_tokens' = refresh_tokens
             /\ rotationLog' = rotationLog]_vars

\* two calls were in flight for the same stored token; one has inserted its
\* replacement and the other has failed
C2_Witness ==
  /\ last.op = "replaceRefreshToken"
  /\ last.status = "OLD_TOKEN_NOT_FOUND"
  /\ last.arg.storedAtCall
  /\ last.arg.oldToken \in Rotated
  /\ \E r \in refresh_tokens : <<last.arg.oldToken, r.token>> \in rotationLog

\* C3: a refresh of a stored, unexpired token rt changes the table by
\* exactly one swap: rt goes, one new token of the same owner with expiry
\* now + 7 days comes, every other row stays.
C3_ExactlyOneSwap ==
  [][\A n \in IssuedTokens :
       (RefreshReturns(Opaque(n)) /\ Rotatable(n)) =>
          \E old \in TokenRows(n), new \in 1..(MaxLogins + 1) :
             /\ new \notin StoredTokens
             /\ last'.status = "ok"
             /\ last'.rt = new
             /\ refresh_tokens' = (refresh_tokens \ {old}) \cup
                   {[user_id |-> old.user_id, token |-> new,
                     expires_at |-> now + RefreshTokenLifetime]}]_vars

\* C4: a refresh whose old token was handed out and is gone from the table
\* (rotated, logged out, logged out everywhere) fails with
\* INVALID_REFRESH_TOKEN and inserts nothing.
C4_ConsumedTokenRejected ==
  [][\A n \in IssuedTokens :
       (RefreshReturns(Opaque(n)) /\ TokenRows(n) = {}) =>
          /\ last'.status = "INVALID_REFRESH_TOKEN"
          /\ refresh_tokens' = refresh_tokens]_vars

\* C5: a refresh with a token that is not in the table, or that is in the
\* table but past its expires_at, fails with INVALID_REFRESH_TOKEN and
\* issues no token.
C5_UnknownOrExpiredRejected ==
  [][\A n \in 0..MaxLogins :
       (/\ RefreshReturns(Opaque(n))
        /\ \/ TokenRows(n) = {}
           \/ \E r \in TokenRows(n) : now > r.expires_at) =>
          /\ last'.status = "INVALID_REFRESH_TOKEN"
          /\ last'.rt = 0
          /\ last'.at = NoToken
          /\ refresh_tokens' = refresh_tokens]_vars

\* C6: every refresh token in the table is unexpired: its expires_at lies
\* in the future.
C6_StoredTokensUnexpired ==
  \A r \in refresh_tokens : r.expires_at > now

\* C7: a successful login of user u adds exactly one row to refresh_tokens,
\* owned by u, expiring at now + 7 days; the refresh token returned is that
\* row's token and looking it up resolves to u; the access token returned
\* carries u's id and verifies from the first to the last second of its
\* validity window (verifyToken compares the clock with exp only).
C7_LoginStoresOneToken ==
  [][\A c \in LoginCalls :
       (LoginStore(c) /\ last'.status = "ok") =>
          \E u \in users :
             /\ u.email = c.email
             /\ last'.rt \notin StoredTokens
             /\ refresh_tokens' = refresh_tokens \cup
                   {[user_id |-> u.id, token |-> last'.rt,
                     expires_at |-> now + RefreshTokenLifetime]}
             /\ \A r \in refresh_tokens' : r.token = last'.rt => r.user_id = u.id
             /\ last'.at.id = u.id
             /\ last'.at.email = u.email
             /\ \A t \in {last'.at.iat, last'.at.iat + 1, last'.at.exp - 1} :
                  verifyToken(last'.at, t) = "ok"
             /\ verifyToken(last'.at, last'.at.exp) = "TOKEN_EXPIRED"
             /\ last'.at.iat = now
             /\ last'.at.exp = now + AccessTokenExpiresIn]_vars

\* a second session of a user was opened while another session is stored
C7_Witness ==
  /\ last.op = "login"
  /\ last.status = "ok"
  /\ \E r \in refresh_tokens : r.token = last.rt /\ r.expires_at = now + RefreshTokenLifetime
  /\ Cardinality(refresh_tokens) >= 2

\* C8: login fails with USER_NOT_FOUND when no user has the email, with
\* INVALID_CREDENTIALS when a user has it and the password does not verify
\* against the stored hash, and never succeeds without a matching password.
C8_LoginErrors ==
  [][/\ \A e \in Emails, pw \in Passwords :
          LoginStart(e, pw) =>
             IF \E u \in users : u.email = e
             THEN /\ BagCardinality(inflight') = BagCardinality(inflight) + 1
                  /\ last' = last
             ELSE /\ inflight' = inflight
                  /\ last'.op = "login"
                  /\ last'.status = "USER_NOT_FOUND"
     /\ \A c \in LoginCalls :
          LoginStore(c) =>
            /\ last'.op = "login"
            /\ IF \E u \in users : /\ u.email = c.email
                                   /\ u.password_hash = hashPassword(c.password)
               THEN last'.status = "ok"
               ELSE /\ last'.status = "INVALID_CREDENTIALS"
                    /\ refresh_tokens' = refresh_tokens
                    /\ last'.rt = 0
                    /\ last'.at = NoToken]_vars

\* a login with the password of another user was refused
C8_Witness ==
  /\ last.op = "login"
  /\ last.status = "INVALID_CREDENTIALS"
  /\ \E u \in users : u.email = last.arg.email
  /\ \E u \in users : u.password_hash = hashPassword(last.arg.password)

\* C9: logout(rt) removes rt and succeeds when rt is in the table; when it
\* is not (never issued, rotated, logged out before) it fails with
\* INVALID_REFRESH_TOKEN and changes nothing.
C9_Logout ==
  [][\A t \in RefreshTokenInputs :
       Logout(t) =>
          /\ last'.op = "logout"
          /\ IF t.kind = "opaque" /\ TokenRows(t.v) # {}
             THEN /\ last'.status = "ok"
                  /\ refresh_tokens' = refresh_tokens \ TokenRows(t.v)
                  /\ \A r \in refresh_tokens' : r.token # t.v
             ELSE /\ last'.status = "INVALID_REFRESH_TOKEN"
                  /\ refresh_tokens' = refresh_tokens]_vars

\* the logout of a token that was handed out and is no longer stored (a
\* second logout) was refused
C9_Witness ==
  /\ last.op = "logout"
  /\ last.status = "INVALID_REFRESH_TOKEN"
  /\ last.arg.token.kind = "opaque"
  /\ last.arg.token.v \in IssuedTokens
  /\ TokenRows(last.arg.token.v) = {}

\* C10: logoutAllDevices(u) succeeds for every existing user u, with or
\* without sessions; afterwards no row of refresh_tokens is owned by u and
\* the rows of every other user are as before.
C10_LogoutAllDevices ==
  [][\A u \in users :
       LogoutAllDevices(u.id) =>
          /\ last'.op = "logoutAllDevices"
          /\ last'.status = "ok"
          /\ \A r \in refresh_tokens' : r.user_id # u.id
          /\ \A r \in refresh_tokens : r.user_id # u.id => r \in refresh_tokens'
          /\ refresh_tokens' \subseteq refresh_tokens]_vars

\* the sessions of one user were removed and a session of another user is
\* still stored
C10_Witness ==
  /\ last.op = "logoutAllDevices"
  /\ last.status = "ok"
  /\ last.deleted >= 1
  /\ \E r \in refresh_tokens : r.user_id # last.arg.userId

\* C11: a register call with username, email and a password of at least
\* eight characters, none of them used by an existing user, passes both
\* pre-checks, inserts exactly one user with those names and a hash of that
\* password, succeeds, and returns a view without password_hash.
C11_RegisterSucceeds ==
  [][/\ \A i \in RegisterInputs :
          (/\ RegisterStart(i[1], i[2], i[3])
           /\ ValidRegistration(i[1], i[2], i[3])
           /\ \A u \in users : u.email # i[2]) =>
             /\ BagCardinality(inflight') = BagCardinality(inflight) + 1
             /\ last' = last
             /\ users' = users
     /\ \A c \in RegisterCalls :
          /\ (RegisterFindByUsername(c) /\ \A u \in users : u.username # c.username) =>
                /\ BagIn([c EXCEPT !.pc = "register_create"], inflight')
                /\ last' = last
                /\ users' = users
          /\ (/\ RegisterCreate(c)
              /\ \A u \in users : u.email # c.email /\ u.username # c.username) =>
                /\ last'.op = "register"
                /\ last'.status = "ok"
                /\ registerStatusCode(last'.status) = 201
                /\ \E row \in users' \ users :
                     /\ users' = users \cup {row}
                     /\ row.username = c.username
                     /\ row.email = c.email
                     /\ comparePassword(c.password, row.password_hash)
                     /\ \A u \in users : u.id # row.id
                     /\ last'.user.id = row.id
                     /\ last'.user.username = row.username
                     /\ last'.user.email = row.email
                /\ "password_hash" \notin DOMAIN last'.user]_vars

\* a second new user was registered and can be looked up by the id returned
C11_Witness ==
  /\ last.op = "register"
  /\ last.status = "ok"
  /\ Cardinality(users) = 4
  /\ \E u \in users : u.id = last.user.id /\ u.email = last.arg.email

\* C12: a register call with valid fields and the email of an existing user
\* fails with EMAIL_ALREADY_EXISTS (409), whether the username is new or
\* taken, and inserts nothing.
C12_DuplicateEmail ==
  [][\A i \in RegisterInputs :
       (/\ RegisterStart(i[1], i[2], i[3])
        /\ ValidRegistration(i[1], i[2], i[3])
        /\ \E u \in users : u.email = i[2]) =>
          /\ last'.op = "register"
          /\ last'.status = "EMAIL_ALREADY_EXISTS"
          /\ registerStatusCode(last'.status) = 409
          /\ inflight' = inflight
          /\ users' = users]_vars

\* the email of a user that was registered before was refused together with
\* a username nobody has
C12_Witness ==
  /\ last.op = "register"
  /\ last.status = "EMAIL_ALREADY_EXISTS"
  /\ \E u \in users : u.email = last.arg.email /\ u.id \notin {Alice.id, Bob.id}
  /\ \A u \in users : u.username # last.arg.username

\* C13: a register call whose INSERT hits a unique index (both pre-checks
\* passed before another call inserted the same email or username) inserts
\* nothing and is answered as a duplicate-user conflict, status 409.
C13_RaceLoserIsConflict ==
  [][\A c \in RegisterCalls :
       (/\ RegisterCreate(c)
        /\ \E u \in users : u.email = c.email \/ u.username = c.username) =>
          /\ users' = users
          /\ registerStatusCode(last'.status) = 409]_vars

\* C14: no two distinct rows of users share an email, a username or an id.
C14_UniqueEmailAndUsername ==
  \A u, v \in users :
     (u.email = v.email \/ u.username = v.username \/ u.id = v.id) => u = v

\* a profile update lost against a registration: its UPDATE hit a unique
\* index that a user registered in the meantime occupies
C14_Witness ==
  /\ last.op = "updateUserProfile"
  /\ last.status = "UPDATE_PROFILE_FAILED"
  /\ \E kv \in last.arg.updates, u \in users :
        /\ u.id \notin {Alice.id, Bob.id}
        /\ u[kv[1]] = kv[2]

\* C15: the owner of every row of refresh_tokens is a row of users.
C15_TokenOwnerExists ==
  \A r \in refresh_tokens : \E u \in users : u.id = r.user_id

\* a user with a stored session was removed while a login of that user was
\* waiting for its INSERT: the login failed, and a session of the other
\* user is still stored
C15_Witness ==
  /\ last.op = "login"
  /\ last.status = "LOGIN_FAILED"
  /\ \A u \in users : u.email # last.arg.email
  /\ nextToken > 2
  /\ refresh_tokens # {}

C17_VerifyTokenErrors ==
  [][\A w \in Presentations :
       VerifyToken(w) =>
          /\ last'.op = "verifyToken"
          /\ last'.status =
               IF w = "none" THEN "TOKEN_REQUIRED"
               ELSE IF w \in {"garbage", "forged"} THEN "INVALID_TOKEN"
               ELSE IF now >= held.exp THEN "TOKEN_EXPIRED"
               ELSE "ok"
          /\ IF last'.status = "ok"
             THEN /\ Presented(w).kind = "jwt"
                  /\ Presented(w).sig = JwtSecret
                  /\ now < Presented(w).exp
                  /\ last'.user = Claims(Presented(w))
             ELSE last'.user = NoUser]_vars

\* a token signed with another key was refused as invalid after its exp
C17_Witness ==
  /\ last.op = "verifyToken"
  /\ last.status = "INVALID_TOKEN"
  /\ last.arg.token.kind = "jwt"
  /\ last.arg.token.sig # JwtSecret
  /\ now >= last.arg.token.exp

\* the error codes of a database that cannot be reached
ConnectivityCodes == {"ECONNREFUSED", "ENOTFOUND"}

\* a persistence call of register, login, logout, logoutAllDevices or
\* refreshToken is rejected with the error code
PersistenceCallFails(code) ==
  \/ \E i \in FailRegisterInputs : RegisterFindByEmailFails(i[1], i[2], i[3], code)
  \/ \E c \in RegisterCalls : RegisterFindByUsernameFails(c, code)
  \/ \E c \in RegisterCalls : RegisterCreateFails(c, code)
  \/ \E i \in TokenLogins : LoginFindByEmailFails(i[1], i[2], code)
  \/ \E c \in LoginCalls : LoginStoreFails(c, code)
  \/ \E t \in RefreshTokenInputs : LogoutFails(t, code)
  \/ \E id \in RepoUserIds : LogoutAllDevicesFails(id, code)
  \/ \E c \in RefreshCalls : RefreshFindByIdFails(c, code)

\* C18: when a persistence call of register, login, logout, logoutAllDevices
\* or refreshToken fails because the database cannot be reached, the service
\* call ends in that step with DATABASE_CONNECTION_ERROR (503 for register):
\* no further statement is sent, no request is left pending for it, and the
\* tables are as they were.
C18_ConnectivityFailureSurfaces ==
  [][\A code \in ConnectivityCodes :
       PersistenceCallFails(code) =>
         /\ last'.op \in {"register", "login", "logout", "logoutAllDevices", "refreshToken"}
         /\ last'.status = "DATABASE_CONNECTION_ERROR"
         /\ last'.op = "register" => registerStatusCode(last'.status) = 503
         /\ BagCardinality(inflight') <= BagCardinality(inflight)
         /\ \A c \in BagToSet(inflight') : CopiesIn(c, inflight') <= CopiesIn(c, inflight)
         /\ Tables' = Tables
         /\ nextToken' = nextToken]_vars

\* a refresh call with a verified token of a logged-in user was answered
\* DATABASE_CONNECTION_ERROR
C18_Witness ==
  /\ last.op = "refreshToken"
  /\ last.status = "DATABASE_CONNECTION_ERROR"
  /\ last.arg.token.kind = "jwt"
  /\ refresh_tokens # {}

\* C19: deleteCheckHistory(userId, checkId) answers NOT_FOUND (404) when no
\* record has the id and FORBIDDEN (403) when the record belongs to another
\* user, leaving check_results as it was in both cases; the rows its
\* deleteById removes have the id checkId and the user_id userId, and no other
\* row is touched.
C19_DeleteOnlyOwnRecord ==
  [][/\ \A u \in CheckUserIds, k \in CheckIdInputs :
          DeleteCheckStart(u, k) =>
            /\ check_results' = check_results
            /\ (~\E r \in check_results : r.id = k) =>
                  /\ last'.status = "NOT_FOUND"
                  /\ deleteCheckStatusCode(last'.status) = 404
                  /\ inflight' = inflight
            /\ (\E r \in check_results : r.id = k /\ r.user_id # u) =>
                  /\ last'.status = "FORBIDDEN"
                  /\ deleteCheckStatusCode(last'.status) = 403
                  /\ inflight' = inflight
     /\ \A c \in DeleteCheckCalls :
          DeleteCheckExec(c) =>
            /\ \A r \in check_results \ check_results' :
                  r.id = c.checkId /\ r.user_id = c.userId
            /\ check_results' \subseteq check_results
            /\ ~\E r \in check_results' : r.id = c.checkId]_vars

\* both users have a record; Bob's request to delete Alice's was refused
\* and both records are still there
C19_Witness ==
  /\ last.op = "deleteCheckHistory"
  /\ last.status = "FORBIDDEN"
  /\ last.arg.userId = "uuid-bob"
  /\ \E r \in check_results : r.id = last.arg.checkId /\ r.user_id = "uuid-alice"
  /\ \E r \in check_results : r.user_id = "uuid-bob"

\* C20: a changePassword call of an existing user with the user's current
\* password and a different new password of eight characters or more
\* succeeds, and from then on the stored hash matches the new password and
\* not the old one; a login is answered ok when its password matches the
\* stored hash and INVALID_CREDENTIALS when it does not, so that the old
\* password is refused and the new one accepted.
C20_ChangePasswordThenLogin ==
  [][/\ \A i \in ChangePasswordInputs :
          (/\ ChangePassword(i[1], i[2], i[3])
           /\ i[2] # i[3] /\ Len(i[3]) >= 8
           /\ \E u \in users : u.id = i[1] /\ comparePassword(i[2], u.password_hash)) =>
             /\ last'.status = "ok"
             /\ \A u \in users' : u.id = i[1] =>
                  /\ comparePassword(i[3], u.password_hash)
                  /\ ~comparePassword(i[2], u.password_hash)
     /\ \A c \in PwLoginCalls :
          (LoginStore(c) /\ c.user \in users) =>
             last'.status = IF comparePassword(c.password, c.user.password_hash)
                            THEN "ok" ELSE "INVALID_CREDENTIALS"]_vars

\* C21: a changePassword call of an existing user whose currentPassword does
\* not match the stored hash (new password valid and different) is answered
\* with HTTP 401 and leaves every stored password hash as it was.
C21_WrongCurrentPassword ==
  [][\A i \in ChangePasswordInputs :
       (/\ ChangePassword(i[1], i[2], i[3])
        /\ i[2] # "" /\ i[2] # i[3] /\ Len(i[3]) >= 8
        /\ \E u \in users : u.id = i[1] /\ ~comparePassword(i[2], u.password_hash)) =>
          /\ changePasswordStatusCode(last'.status) = 401
          /\ users' = users]_vars

\* C22: an updateUserProfile call that sets the username or the email to
\* the value another user has is answered as a duplicate conflict, HTTP 409,
\* and changes no row of users.
C22_DuplicateProfileUpdate ==
  [][\A c \in UpdateCalls :
       (/\ UpdateProfileExec(c)
        /\ \E u \in users, o \in users, kv \in c.updates :
              /\ u.id = c.userId /\ o.id # u.id
              /\ kv[1] \in {"username", "email"} /\ o[kv[1]] = kv[2]) =>
          /\ updateProfileStatusCode(last'.status) = 409
          /\ users' = users]_vars

\* no two stored blogs have titles that are equal but for case
TitlesDistinct ==
  \A a, b \in blogs : a.id # b.id => LOWER(a.title) # LOWER(b.title)

MayChange(payload) ==
  payload.has \cup
  (IF "content" \in payload.has THEN {"excerpt", "reading_time_minutes"} ELSE {}) \cup
  {"published_at", "updated_at"}

\* C24: the UPDATE of an updateBlog call gives the columns the payload has
\* the payload's values, changes besides them only excerpt and
\* reading_time_minutes (when the payload has content), published_at and
\* updated_at, and leaves every other blog as it was.
C24_PartialUpdateFrame ==
  [][\A c \in BagToSet(inflight) :
       (c.op = "updateBlog" /\ UpdateBlogExec(c)) =>
         /\ \A b \in blogs : b.id # c.blogId => b \in blogs'
         /\ {b.id : b \in blogs'} = {b.id : b \in blogs}
         /\ \A b \in blogs, b2 \in blogs' :
              (b.id = c.blogId /\ b2.id = c.blogId) =>
                /\ \A k \in DOMAIN b : b2[k] # b[k] => k \in MayChange(c.payload)
                /\ \A k \in c.payload.has \ {"published_at"} : b2[k] = c.payload.val[k]]_vars

\* a blog took the status and the reading time of a payload that had
\* nothing else, and kept its title, content and author; another blog is
\* stored
C24_Witness ==
  /\ last.op = "updateBlog"
  /\ last.status = "ok"
  /\ last.arg.payload.has = {"status", "reading_time_minutes"}
  /\ \E b \in blogs :
        /\ b.id = last.arg.blogId
        /\ b.status = "draft" /\ b.reading_time_minutes = 15
        /\ b.title = Dia /\ b.content = EatGreens /\ b.author = "ann"
  /\ Cardinality(blogs) = 2

\* C28: no two stored blogs have titles that are equal case-insensitively,
\* whatever the interleaving of the createBlog and updateBlog calls.
C28_UniqueTitlesUnderConcurrency == TitlesDistinct

\* C29: when the calls are made one after the other, every stored blog
\* with the status published has a published_at that is not null.
C29_PublishedHasDate ==
  \A b \in blogs : b.status = "published" => b.published_at # NullDate

\* a blog whose date had been cleared by an update to draft was published
\* again by an update and has a date
C29_Witness ==
  /\ last.op = "updateBlog"
  /\ last.status = "ok"
  /\ last.arg.payload.has = {"status"}
  /\ \E b \in blogs :
        /\ b.id = last.arg.blogId
        /\ b.status = "published" /\ b.reading_time_minutes = 15
        /\ b.published_at # NullDate

\* C25: a replaceRefreshToken call that fails, because the old token is not
\* stored or because it is stored for another user, leaves refresh_tokens
\* exactly as it was.
C25_FailedReplaceLeavesStore ==
  [][\A c \in BagToSet(inflight) :
       (/\ c.op = "replaceRefreshToken"
        /\ RepoReplaceExec(c)
        /\ last'.status # "ok") =>
          refresh_tokens' = refresh_tokens]_vars

\* C26: of a deleteRefreshToken (logout) and a replaceRefreshToken (refresh)
\* of the same stored token at most one takes effect, whichever statement
\* runs first: a replacement that runs after the token was deleted fails
\* and inserts nothing, and a delete that runs after the token was replaced
\* removes no row, which logout reports as INVALID_REFRESH_TOKEN.
C26_LogoutRefreshExclusive ==
  [][/\ \A c \in BagToSet(inflight) :
          (/\ c.op = "replaceRefreshToken"
           /\ RepoReplaceExec(c)
           /\ TokenRows(c.oldToken) = {}) =>
             /\ last'.status # "ok"
             /\ refresh_tokens' = refresh_tokens
             /\ rotationLog' = rotationLog
     /\ \A n \in Rotated :
          RepoDeleteRefreshToken(n) =>
             /\ last'.deleted = 0
             /\ refresh_tokens' = refresh_tokens]_vars

\* a replacement that was sent while its old token was stored found the
\* token gone and failed; the token has no replacement
C26_Witness ==
  /\ last.op = "replaceRefreshToken"
  /\ last.status = "OLD_TOKEN_NOT_FOUND"
  /\ last.arg.storedAtCall
  /\ TokenRows(last.arg.oldToken) = {}
  /\ last.arg.oldToken \notin Rotated
  /\ TokenRows(last.arg.token) = {}

\* C27: a register, login or logout call that is answered with an error
\* leaves the tables users and refresh_tokens as they were; a login that
\* fails stores no refresh token.
C27_ErrorsChangeNothing ==
  [][(/\ BagCardinality(inflight') <= BagCardinality(inflight)
      /\ last'.op \in {"register", "login", "logout"}
      /\ last'.status # "ok") =>
        /\ users' = users
        /\ refresh_tokens' = refresh_tokens]_vars

\* a login with a wrong password was refused while a session of that user
\* and a newly registered user are stored, and no token was drawn for it
C27_Witness ==
  /\ last.op = "login"
  /\ last.status = "INVALID_CREDENTIALS"
  /\ Cardinality(users) = 3
  /\ Cardinality(refresh_tokens) = 1
  /\ nextToken = 2

\* C30: a row that createCheckHistory inserts carries, as diabetes_result,
\* the 0 or 1 that the prediction call returned for that request, whatever
\* diabetes_result the payload sent; a request whose prediction fails, and
\* any request answered with an error, inserts nothing.
C30_PersistedResultIsPrediction ==
  [][/\ \A c \in BagToSet(inflight) :
          (c.op = "createCheckHistory" /\ CreateCheckInsert(c)) =>
             /\ check_results \subseteq check_results'
             /\ \A r \in check_results' \ check_results :
                   /\ r.user_id = c.userId
                   /\ r.diabetes_result = c.predicted
                   /\ r.diabetes_result \in {0, 1}
     /\ \A response \in ApiResponses :
          getHuggingFacePrediction(response) = PREDICTION_FAILED =>
             /\ BagCardinality(inflight') > BagCardinality(inflight) =>
                   \A u \in {"uuid-alice", "", "uuid-unknown"}, r \in CallerResults :
                      ~CreateCheckStart(u, r, response)
             /\ (last'.op = "createCheckHistory" /\ inflight' = inflight) =>
                   (CreateCheckStart(last'.arg.userId, last'.arg.diabetes_result, response) =>
                      /\ last'.status # "ok"
                      /\ check_results' = check_results)
     /\ BagCardinality(inflight') > BagCardinality(inflight) =>
          check_results' = check_results
     /\ (/\ BagCardinality(inflight') <= BagCardinality(inflight)
         /\ last'.op = "createCheckHistory"
         /\ last'.status # "ok") => check_results' = check_results]_vars

\* a request that sent diabetes_result 1 was answered with success, and the
\* one row stored has the predicted 0
C30_Witness ==
  /\ last.op = "createCheckHistory"
  /\ last.status = "ok"
  /\ last.arg.diabetes_result = 1
  /\ nextCheckId = 2
  /\ \A r \in check_results : r.diabetes_result = 0

====
